---- MODULE Spec2Model ----
(***************************************************************************)
(* A model of the copyr.ai backend core: the US copyright term calculator, *)
(* the country-aware orchestrator (CopyrightAnalyzer / USAnalyzer) and the *)
(* Library of Congress relevance scorer and filter.                        *)
(*                                                                         *)
(* Conventions.                                                            *)
(*  - A Python Optional[int] is a set: {} is None, {y} is the integer y.   *)
(*  - A Python str is a sequence of one-character strings.                 *)
(*  - A Python float score is an exact fraction [n |-> num, d |-> den]     *)
(*    with d > 0; comparisons are by cross multiplication.                 *)
(***************************************************************************)
EXTENDS Integers, Sequences, FiniteSets, TLC

VARIABLES
    \* ---- USCopyrightCalculator ----
    current_year,        \* self.current_year, set when the calculator is built
    publication_year,    \* argument of calculate_copyright_status (Optional[int])
    author_death_year,   \* argument of calculate_copyright_status (Optional[int])
    work_type,           \* argument of calculate_copyright_status
    country_arg,         \* argument "country" of calculate_copyright_status
    verdict,             \* the returned (status, pd_year, explanation)
    calc_pc,             \* "ready" before the call, "done" after it
    \* ---- CopyrightAnalyzer / USAnalyzer ----
    an_self,             \* the CopyrightAnalyzer instance last constructed
    an_call,             \* the last call made: operation and arguments
    an_result,           \* what that call returned or raised
    \* ---- LibraryOfCongressClient relevance filter ----
    rel_title,           \* the title searched for
    rel_author,          \* the author searched for
    rel_matches,         \* results['matches']: the parsed candidate records
    rel_scores,          \* the score computed for every candidate, in input order
    rel_result,          \* the ranked list returned, or the error raised
    rel_pc,              \* "ready" before the filter runs, "done" after it
    \* ---- MetadataNormalizer: merge_api_responses and create_work_record ----
    rec_in,              \* the source responses and the query handed to the merge
    rec_merged,          \* the merged metadata dict of the run in progress
    rec_records,         \* the WorkRecords created so far, one per run
    rec_clock,           \* what datetime.utcnow() reads
    rec_pc,              \* "ready" between runs, "merged" after the merge
    \* ---- ExternalAPIService.search_all_sources ----
    svc_in,              \* the query and what each client call comes to
    svc_result,          \* the operation run and what it returned or raised
    svc_pc,              \* "ready" before the operation, "done" after it
    \* ---- LibraryOfCongressClient._extract_work_type_from_mods ----
    mods_in,             \* the MODS element handed to the classifier (None or its texts)
    mods_result,         \* the (work_type, confidence) returned
    mods_pc,             \* "ready" before the call, "done" after it
    \* ---- WorkRepository.create_work ----
    repo_rows,           \* the rows of the work_cache table, in insertion order
    repo_last,           \* the content hash of the last create_work and whether it found a row
    repo_n,              \* how many create_work calls were made
    \* ---- CacheManager.find_existing_work ----
    cache_rows,          \* the rows of work_cache, in the order a query returns them
    cache_work,          \* the title, author and year of the new work
    cache_found,         \* the row find_existing_work returned, None when it found none
    cache_pc,            \* "ready" before the lookup, "done" after it
    \* ---- the work_cache table (CacheManager.cache_work, WorkRepository.create_work) ----
    store_rows,          \* the rows of work_cache, in id order
    store_prev,          \* the rows before the last call
    store_merged,        \* per row, the keys of the other sources merged into it
    store_last,          \* the last call: operation, branch taken, row, work
    store_n,             \* the number of calls made
    \* ---- the rate limiters of the source clients (_async_rate_limit) ----
    lim_now,             \* time.time(), in tenths of a second
    lim_last,            \* last_request_time of each client
    lim_pc,              \* each caller: "ready", "sleeping" in asyncio.sleep, "requested"
    lim_client,          \* the client each caller calls
    lim_called,          \* when each caller entered _async_rate_limit
    lim_wake,            \* when the sleep of each caller is over, 0 when it did not sleep
    lim_start,           \* when each caller issued its request
    \* ---- the shared session of the global ExternalAPIService ----
    sess_session,        \* external_api_service.session: None or the number of a ClientSession
    sess_closed,         \* the ClientSessions that were closed
    sess_made,           \* how many ClientSessions the service made
    sess_pc,             \* each request: "idle", "entered", "searching", "in_flight", "returned"
    sess_given,          \* the session each search handed to the clients
    sess_http,           \* the session each request was sent on: "shared", "own", "none"
    sess_failed          \* whether the request was in flight on a session closed under it

calcVars == <<current_year, publication_year, author_death_year, work_type,
              country_arg, verdict, calc_pc>>

anVars == <<an_self, an_call, an_result>>

relVars == <<rel_title, rel_author, rel_matches, rel_scores, rel_result, rel_pc>>

recVars == <<rec_in, rec_merged, rec_records, rec_clock, rec_pc>>

svcVars == <<svc_in, svc_result, svc_pc>>

modsVars == <<mods_in, mods_result, mods_pc>>

repoVars == <<repo_rows, repo_last, repo_n>>

cacheVars == <<cache_rows, cache_work, cache_found, cache_pc>>

storeVars == <<store_rows, store_prev, store_merged, store_last, store_n>>

limVars == <<lim_now, lim_last, lim_pc, lim_client, lim_called, lim_wake, lim_start>>

sessVars == <<sess_session, sess_closed, sess_made, sess_pc, sess_given, sess_http, sess_failed>>

vars == <<calcVars, anVars, relVars, recVars, svcVars, modsVars, repoVars, cacheVars, storeVars, limVars, sessVars>>

\* What each component leaves alone: the variables of the others.
notCalcVars == <<anVars, relVars, recVars, svcVars, modsVars, repoVars, cacheVars, storeVars, limVars, sessVars>>
notAnVars == <<calcVars, relVars, recVars, svcVars, modsVars, repoVars, cacheVars, storeVars, limVars, sessVars>>
notRelVars == <<calcVars, anVars, recVars, svcVars, modsVars, repoVars, cacheVars, storeVars, limVars, sessVars>>
notRecVars == <<calcVars, anVars, relVars, svcVars, modsVars, repoVars, cacheVars, storeVars, limVars, sessVars>>
notSvcVars == <<calcVars, anVars, relVars, recVars, modsVars, repoVars, cacheVars, storeVars, limVars, sessVars>>
notModsVars == <<calcVars, anVars, relVars, recVars, svcVars, repoVars, cacheVars, storeVars, limVars, sessVars>>
notRepoVars == <<calcVars, anVars, relVars, recVars, svcVars, modsVars, cacheVars, storeVars, limVars, sessVars>>
notCacheVars == <<calcVars, anVars, relVars, recVars, svcVars, modsVars, repoVars, storeVars, limVars, sessVars>>
notStoreVars == <<calcVars, anVars, relVars, recVars, svcVars, modsVars, repoVars, cacheVars, limVars, sessVars>>
notLimVars == <<calcVars, anVars, relVars, recVars, svcVars, modsVars, repoVars, cacheVars, storeVars, sessVars>>
notSessVars == <<calcVars, anVars, relVars, recVars, svcVars, modsVars, repoVars, cacheVars, storeVars, limVars>>

(***************************************************************************)
(* Python values                                                           *)
(***************************************************************************)
None == {}
Some(y) == {y}
Val(o) == CHOOSE y \in o : TRUE

\* Python truthiness of an Optional[int]: None and 0 are falsy.
Truthy(o) == o # None /\ o # Some(0)

(***************************************************************************)
(* Bounds of the calculator's inputs                                       *)
(***************************************************************************)
\* The year datetime.now().year returns when the calculator is constructed.
BaseYear == 2026
\* Half-width of the windows of years enumerated around every threshold.
YearWindow == 1

Around(a) == (a - YearWindow)..(a + YearWindow)

\* The calculator may be constructed now, or when the first 1978 terms expire.
CurrentYears == Around(BaseYear) \cup Around(1978 + 95)

PubYears ==
    {None} \cup { Some(y) : y \in Around(0) \cup Around(1400) \cup Around(1923)
                              \cup Around(1978) \cup Around(BaseYear - 95)
                              \cup Around(BaseYear) \cup Around(BaseYear + 5) }

DeathYears ==
    {None} \cup { Some(y) : y \in Around(0) \cup Around(1400)
                              \cup Around(BaseYear - 70) \cup Around(BaseYear) }

\* "literary" stands for any category the calculator does not recognise.
WorkTypes == {"individual", "work_for_hire", "anonymous", "pseudonymous", "literary"}

CountryArgs == {"US", "FR"}

(***************************************************************************)
(* USCopyrightCalculator.calculate_copyright_status                        *)
(***************************************************************************)
Verdict(status, pd_year, explanation) ==
    [kind |-> "verdict", status |-> status, pd_year |-> pd_year,
     explanation |-> explanation]

NoVerdict == [kind |-> "none", status |-> "", pd_year |-> None, explanation |-> ""]

\* Line 28-29: no publication year, no verdict.
publication_unknown_Guess ==
    Verdict("Public Domain", Some(1923),
            "Published before 1923. In public domain since 1923.")

publication_unknown ==
    Verdict("Unknown", None, "Publication year unknown")

\* Line 32: the pre-1923 test.
is_pre_1923_OffByOne(py) == py < 1922

is_pre_1923(py) == py < 1923

\* The 95-years-from-publication branches (lines 39-43, 46-50, 65-69).
term_95_years_Strict(cy, py, under_note) ==
    LET pd_year == py + 95 IN
    IF cy > pd_year
    THEN Verdict("Public Domain", Some(pd_year),
                 "Published {publication_year}. 95-year term expired.")
    ELSE Verdict("Under Copyright", Some(pd_year), under_note)

term_95_years(cy, py, under_note) ==
    LET pd_year == py + 95 IN
    IF cy >= pd_year
    THEN Verdict("Public Domain", Some(pd_year),
                 "Published {publication_year}. 95-year term expired.")
    ELSE Verdict("Under Copyright", Some(pd_year), under_note)

\* The life-plus-70 branch (lines 56-60).
life_plus_70_FromPublication(cy, py, dy) ==
    LET pd_year == py + 70 IN
    IF cy >= pd_year
    THEN Verdict("Public Domain", Some(pd_year),
                 "Author died {author_death_year}. Life + 70 years expired.")
    ELSE Verdict("Under Copyright", Some(pd_year),
                 "Published {publication_year} by individual author. Author died {author_death_year}. Term is life + 70 years; PD Jan 1, {pd_year}.")

life_plus_70(cy, py, dy) ==
    LET pd_year == dy + 70 IN
    IF cy >= pd_year
    THEN Verdict("Public Domain", Some(pd_year),
                 "Author died {author_death_year}. Life + 70 years expired.")
    ELSE Verdict("Under Copyright", Some(pd_year),
                 "Published {publication_year} by individual author. Author died {author_death_year}. Term is life + 70 years; PD Jan 1, {pd_year}.")

\* Lines 71-74: an individual work from 1978 on whose author's death year is
\* unknown is taken to be under copyright, whatever the current year.
conservative_estimate_Expiring(cy, py) ==
    term_95_years(cy, py,
        "Published {publication_year} by individual author. Death year unknown; estimated PD {estimated_pd} (conservative).")

conservative_estimate(cy, py) ==
    Verdict("Under Copyright", Some(py + 95),
            "Published {publication_year} by individual author. Death year unknown; estimated PD {estimated_pd} (conservative).")

\* Line 76: no rule applies.
cannot_determine_Guess ==
    Verdict("Under Copyright", None,
            "Cannot determine copyright status with available information")

cannot_determine ==
    Verdict("Unknown", None,
            "Cannot determine copyright status with available information")

calculate_copyright_status(cy, pub, death, wt, country) ==
    IF ~Truthy(pub)
    THEN publication_unknown
    ELSE LET py == Val(pub) IN
    IF is_pre_1923(py)
    THEN Verdict("Public Domain", Some(1923),
                 "Published before 1923. In public domain since 1923.")
    ELSE IF 1923 <= py /\ py <= 1977
    THEN IF wt = "individual"
         THEN term_95_years(cy, py,
                "Published {publication_year}. Term is 95 years under s304; PD Jan 1, {pd_year} per s305.")
         ELSE term_95_years(cy, py,
                "Published {publication_year} as {work_type}. Term is 95 years; PD Jan 1, {pd_year}.")
    ELSE IF py >= 1978 /\ wt = "individual" /\ Truthy(death)
    THEN life_plus_70(cy, py, Val(death))
    ELSE IF py >= 1978 /\ wt \in {"work_for_hire", "anonymous", "pseudonymous"}
    THEN term_95_years(cy, py,
           "Published {publication_year} as {work_type}. Term is 95 years from publication; PD Jan 1, {pd_year}.")
    ELSE IF py >= 1978 /\ wt = "individual" /\ ~Truthy(death)
    THEN conservative_estimate(cy, py)
    ELSE cannot_determine

\* BaseCopyrightCalculator._validate_years: defined by the base class, called
\* by no code of the repository.
validate_years(cy, pub, death) ==
    IF pub # None /\ (Val(pub) < 1400 \/ Val(pub) > cy + 5) THEN FALSE
    ELSE IF death # None /\ (Val(death) < 1400 \/ Val(death) > cy) THEN FALSE
    ELSE IF death # None /\ Truthy(pub) /\ Val(death) < Val(pub) - 100 THEN FALSE
    ELSE TRUE

(***************************************************************************)
(* Python strings: sequences of characters                                 *)
(***************************************************************************)
UpperLetters ==
    << "A", "B", "C", "D", "E", "F", "G", "H", "I", "J", "K", "L", "M",
       "N", "O", "P", "Q", "R", "S", "T", "U", "V", "W", "X", "Y", "Z" >>

LowerLetters ==
    << "a", "b", "c", "d", "e", "f", "g", "h", "i", "j", "k", "l", "m",
       "n", "o", "p", "q", "r", "s", "t", "u", "v", "w", "x", "y", "z" >>

UpperChar(ch) ==
    IF \E k \in DOMAIN LowerLetters : LowerLetters[k] = ch
    THEN UpperLetters[CHOOSE k \in DOMAIN LowerLetters : LowerLetters[k] = ch]
    ELSE ch

str_upper(s) == [i \in DOMAIN s |-> UpperChar(s[i])]

LowerChar(ch) ==
    IF \E k \in DOMAIN UpperLetters : UpperLetters[k] = ch
    THEN LowerLetters[CHOOSE k \in DOMAIN UpperLetters : UpperLetters[k] = ch]
    ELSE ch

str_lower(s) == [i \in DOMAIN s |-> LowerChar(s[i])]

\* \s of the regular expressions, and the whitespace of strip() and split().
IsSpace(ch) == ch = " "

\* The characters [^\w\s] matches: neither word characters nor whitespace.
IsPunct(ch) == ch \in {",", ".", "!", "'", "-"}

RECURSIVE str_lstrip(_)
str_lstrip(s) ==
    IF s # <<>> /\ IsSpace(Head(s)) THEN str_lstrip(Tail(s)) ELSE s

RECURSIVE str_rstrip(_)
str_rstrip(s) ==
    IF s # <<>> /\ IsSpace(s[Len(s)]) THEN str_rstrip(SubSeq(s, 1, Len(s) - 1)) ELSE s

str_strip(s) == str_rstrip(str_lstrip(s))

\* sub in s
str_in(sub, s) ==
    \E i \in 0..(Len(s) - Len(sub)) : SubSeq(s, i + 1, i + Len(sub)) = sub

\* Index of the first character of s that is one of seps, Len(s) + 1 if
\* none is.
FirstIndex(s, seps) ==
    IF \E i \in DOMAIN s : s[i] \in seps
    THEN CHOOSE i \in DOMAIN s : s[i] \in seps /\ \A j \in 1..(i - 1) : s[j] \notin seps
    ELSE Len(s) + 1

\* s.split(): the maximal runs of non-whitespace characters.
RECURSIVE str_split(_)
str_split(s) ==
    LET t == str_lstrip(s) IN
    IF t = <<>> THEN <<>>
    ELSE LET k == FirstIndex(t, {" "}) IN
         <<SubSeq(t, 1, k - 1)>> \o str_split(SubSeq(t, k, Len(t)))

\* s.split(',')
RECURSIVE str_split_comma(_)
str_split_comma(s) ==
    LET k == FirstIndex(s, {","}) IN
    IF k > Len(s) THEN <<s>>
    ELSE <<SubSeq(s, 1, k - 1)>> \o str_split_comma(SubSeq(s, k + 1, Len(s)))

\* re.sub(r'[^\w\s]', '', s)
re_sub_punct(s) == SelectSeq(s, LAMBDA ch : ~IsPunct(ch))

Range(f) == { f[i] : i \in DOMAIN f }

SeqsUpTo(S, n) == UNION { [1..k -> S] : k \in 0..n }

Min(a, b) == IF a <= b THEN a ELSE b
Max(a, b) == IF a >= b THEN a ELSE b

(***************************************************************************)
(* Python floats of the scorer, as exact fractions                         *)
(***************************************************************************)
Frac(n, d) == [n |-> n, d |-> d]
FInt(k) == Frac(k, 1)
RECURSIVE GCD(_, _)
GCD(a, b) == IF b = 0 THEN a ELSE GCD(b, a % b)

\* The same fraction in lowest terms (n >= 0, d > 0).
Reduced(n, d) ==
    LET g == GCD(n, d) IN IF g = 0 THEN Frac(0, 1) ELSE Frac(n \div g, d \div g)

FAdd(a, b) == Reduced(a.n * b.d + b.n * a.d, a.d * b.d)
FLt(a, b) == a.n * b.d < b.n * a.d
FEq(a, b) == a.n * b.d = b.n * a.d
FGe(a, b) == ~FLt(a, b)
FMax(a, b) == IF FLt(a, b) THEN b ELSE a

(***************************************************************************)
(* countries/__init__.py: the country registry                             *)
(***************************************************************************)
\* Country code -> analyzer class; the registry holds the one entry 'US'.
COUNTRY_REGISTRY == [c \in {<<"U", "S">>} |-> "USAnalyzer"]

is_country_supported(country_code) == str_upper(country_code) \in DOMAIN COUNTRY_REGISTRY

get_country_info(country_code) ==
    IF str_upper(country_code) \in DOMAIN COUNTRY_REGISTRY
    THEN Some(COUNTRY_REGISTRY[str_upper(country_code)])
    ELSE None

\* Country codes a caller may pass: 'US' in every letter case, a code that
\* is not registered, and the empty string.
CountryCodes ==
    { <<"U", "S">>, <<"u", "s">>, <<"U", "s">>, <<"u", "S">>,
      <<"F", "R">>, <<"f", "r">>, <<>> }

\* The country override of analyze_work / analyze_batch: Optional[str].
CountryOverrides == {None} \cup { Some(c) : c \in CountryCodes }

(***************************************************************************)
(* models/work_record.py, USAnalyzer, CopyrightAnalyzer                    *)
(***************************************************************************)
Raised(error, by) == [kind |-> "raised", error |-> error, analyzer |-> by]
Returned(value, by) == [kind |-> "returned", value |-> value, analyzer |-> by]

\* WorkRecord(title=..., author_name=..., status=..., notes=...) with the
\* dataclass defaults for every other field.
WorkRecord(title, author_name, status, notes) ==
    [title |-> title, author_name |-> author_name, publication_year |-> None,
     country |-> <<"U", "S">>, year_of_death |-> None, work_type |-> None,
     status |-> status, enters_public_domain |-> None,
     source_links |-> <<>>, notes |-> notes, confidence_score |-> 0]

\* LibraryOfCongressClient.search_books is declared `async def`: a call
\* that is not awaited evaluates to a coroutine object, not an APIResponse.
LibraryOfCongressClient_search_books(title, author) == [type |-> "coroutine"]

\* USAnalyzer.analyze_work (a plain `def`).  Line 58 calls search_books
\* without awaiting it and line 68 reads loc_response.success, which a
\* coroutine object does not have; past that point line 106 passes
\* search_work_type to merge_api_responses, which has no such parameter.
USAnalyzer_analyze_work(title, author, wt) ==
    LET loc_response == LibraryOfCongressClient_search_books(title, author) IN
    IF loc_response.type = "coroutine"
    THEN Raised("AttributeError: 'coroutine' object has no attribute 'success'",
                Some("USAnalyzer"))
    ELSE Raised("TypeError: merge_api_responses() got an unexpected keyword argument 'search_work_type'",
                Some("USAnalyzer"))

\* The except branch of USAnalyzer.analyze_batch (lines 166-176).
error_record(title, author, e) ==
    WorkRecord(title, author, "Unknown", <<"Analysis failed: ", e>>)

\* One iteration of the loop of USAnalyzer.analyze_batch (lines 159-176).
batch_item(work) ==
    LET r == USAnalyzer_analyze_work(work[1], work[2], "auto") IN
    IF r.kind = "returned" THEN r.value ELSE error_record(work[1], work[2], r.error)

RECURSIVE USAnalyzer_analyze_batch_AbortOnError(_)
USAnalyzer_analyze_batch_AbortOnError(works) ==
    IF works = <<>> THEN <<>>
    ELSE LET r == USAnalyzer_analyze_work(Head(works)[1], Head(works)[2], "auto") IN
         IF r.kind = "returned"
         THEN <<r.value>> \o USAnalyzer_analyze_batch_AbortOnError(Tail(works))
         ELSE <<>>

\* USAnalyzer.analyze_batch: results.append once per work, in order.
RECURSIVE USAnalyzer_analyze_batch(_)
USAnalyzer_analyze_batch(works) ==
    IF works = <<>> THEN <<>>
    ELSE <<batch_item(Head(works))>> \o USAnalyzer_analyze_batch(Tail(works))

UnsupportedCountry == "ValueError: Country not supported"

\* CopyrightAnalyzer.__init__: the instance built, or the error raised.
CopyrightAnalyzer_init_DefaultUS(country) ==
    LET c == str_upper(country) IN
    IF ~is_country_supported(c)
    THEN [built |-> TRUE, country |-> <<"U", "S">>,
          country_analyzer |-> COUNTRY_REGISTRY[<<"U", "S">>], error |-> ""]
    ELSE [built |-> TRUE, country |-> c,
          country_analyzer |-> Val(get_country_info(c)), error |-> ""]

CopyrightAnalyzer_init(country) ==
    LET c == str_upper(country) IN
    IF ~is_country_supported(c)
    THEN [built |-> FALSE, country |-> c, country_analyzer |-> "", error |-> UnsupportedCountry]
    ELSE [built |-> TRUE, country |-> c,
          country_analyzer |-> Val(get_country_info(c)), error |-> ""]

NoAnalyzer == [built |-> FALSE, country |-> <<>>, country_analyzer |-> "", error |-> ""]

\* Python truthiness of an Optional[str]: None and '' are falsy.
TruthyStr(o) == o # None /\ o # Some(<<>>)

\* The analyzer that serves a call with a country override (lines 74-79 and
\* 99-104): a temporary CopyrightAnalyzer when the override is given and
\* differs from self.country, self otherwise.
serving_analyzer(self, country) ==
    IF TruthyStr(country) /\ str_upper(Val(country)) # self.country
    THEN CopyrightAnalyzer_init(Val(country))
    ELSE self

\* self.country_analyzer.analyze_work / analyze_batch: the registry's one
\* analyzer class is USAnalyzer.
CopyrightAnalyzer_analyze_work(self, title, author, wt, country) ==
    LET a == serving_analyzer(self, country) IN
    IF ~a.built THEN Raised(a.error, None)
    ELSE IF a.country_analyzer = "USAnalyzer"
    THEN USAnalyzer_analyze_work(title, author, wt)
    ELSE Raised("AttributeError", None)

CopyrightAnalyzer_analyze_batch(self, works, country) ==
    LET a == serving_analyzer(self, country) IN
    IF ~a.built THEN Raised(a.error, None)
    ELSE IF a.country_analyzer = "USAnalyzer"
    THEN Returned(USAnalyzer_analyze_batch(works), Some(a.country_analyzer))
    ELSE Raised("AttributeError", None)

(***************************************************************************)
(* LibraryOfCongressClient: the relevance scorer and filter                *)
(***************************************************************************)
\* ['unknown', 'string', 'author'] (lines 417 and 468)
GenericAuthors == { <<"u", "n", "k", "n", "o", "w", "n">>, <<"s", "t", "r", "i", "n", "g">>, <<"a", "u", "t", "h", "o", "r">> }

\* _score_title_relevance(target, match): both lower-cased and stripped.
score_title_relevance_Containment60(target, match) ==
    IF target = <<>> \/ match = <<>> THEN FInt(0)
    ELSE LET clean_target == str_strip(re_sub_punct(target))
             clean_match == str_strip(re_sub_punct(match))
         IN
         IF clean_target = clean_match THEN FInt(100)
         ELSE IF str_in(clean_target, clean_match) \/ str_in(clean_match, clean_target)
         THEN LET min_len == Min(Len(clean_target), Len(clean_match))
                  max_len == Max(Len(clean_target), Len(clean_match))
              IN \* ratio = min_len / max_len; 80 * ratio if ratio > 0.3 else 0
                 IF max_len > 0 /\ 10 * min_len > 3 * max_len
                 THEN Frac(60 * min_len, max_len) ELSE FInt(0)
         ELSE LET target_words == { w \in Range(str_split(target)) : Len(w) > 2 }
                  match_words == { w \in Range(str_split(match)) : Len(w) > 2 }
                  overlap == Cardinality(target_words \cap match_words)
                  total == Cardinality(target_words \cup match_words)
              IN IF target_words # {} /\ match_words # {}
                 THEN \* 60 * overlap_ratio if overlap_ratio > 0.3 else 0
                      IF total > 0 /\ 10 * overlap > 3 * total
                      THEN Frac(60 * overlap, total) ELSE FInt(0)
                 ELSE FInt(0)

score_title_relevance(target, match) ==
    IF target = <<>> \/ match = <<>> THEN FInt(0)
    ELSE LET clean_target == str_strip(re_sub_punct(target))
             clean_match == str_strip(re_sub_punct(match))
         IN
         IF clean_target = clean_match THEN FInt(100)
         ELSE IF str_in(clean_target, clean_match) \/ str_in(clean_match, clean_target)
         THEN LET min_len == Min(Len(clean_target), Len(clean_match))
                  max_len == Max(Len(clean_target), Len(clean_match))
              IN \* ratio = min_len / max_len; 80 * ratio if ratio > 0.3 else 0
                 IF max_len > 0 /\ 10 * min_len > 3 * max_len
                 THEN Frac(80 * min_len, max_len) ELSE FInt(0)
         ELSE LET target_words == { w \in Range(str_split(target)) : Len(w) > 2 }
                  match_words == { w \in Range(str_split(match)) : Len(w) > 2 }
                  overlap == Cardinality(target_words \cap match_words)
                  total == Cardinality(target_words \cup match_words)
              IN IF target_words # {} /\ match_words # {}
                 THEN \* 60 * overlap_ratio if overlap_ratio > 0.3 else 0
                      IF total > 0 /\ 10 * overlap > 3 * total
                      THEN Frac(60 * overlap, total) ELSE FInt(0)
                 ELSE FInt(0)

\* The body of the loop of _score_author_relevance for the author at
\* position i (0-based) of the candidate's list (lines 474-498).
author_current_score(target, author, i) ==
    LET current_score ==
            IF target = author THEN FInt(100)
            ELSE IF str_in(target, author) \/ str_in(author, target)
            THEN LET min_len == Min(Len(target), Len(author))
                     max_len == Max(Len(target), Len(author))
                 IN \* ratio > 0.4
                    IF max_len > 0 /\ 5 * min_len > 2 * max_len
                    THEN Frac(70 * min_len, max_len) ELSE FInt(0)
            ELSE IF \E k \in DOMAIN author : author[k] = ","
            THEN LET raw == str_split_comma(author)
                     last_name == str_strip(raw[1])
                     first_name == str_strip(raw[2])
                 IN IF str_in(last_name, target) /\ str_in(first_name, target)
                    THEN FInt(85)
                    ELSE IF str_in(last_name, target) THEN FInt(60) ELSE FInt(0)
            ELSE FInt(0)
    IN \* current_score *= 1.1 for the first-listed author
       IF i = 0 /\ FLt(FInt(0), current_score)
       THEN Frac(11 * current_score.n, 10 * current_score.d)
       ELSE current_score

RECURSIVE best_author_score(_, _, _)
best_author_score(target, match_authors, n) ==
    IF n = 0 THEN FInt(0)
    ELSE FMax(best_author_score(target, match_authors, n - 1),
              author_current_score(target, match_authors[n], n - 1))

\* _score_author_relevance(target, match_authors)
score_author_relevance(target, match_authors) ==
    IF target = <<>> \/ match_authors = <<>> THEN FInt(0)
    ELSE IF target \in GenericAuthors THEN FInt(50)
    ELSE best_author_score(target, match_authors, Len(match_authors))

\* match.get('title', '').lower().strip(), for a title that is a string
match_title_of(match) == str_strip(str_lower(Val(match.title)))

\* [author.lower().strip() for author in match.get('authors', [])]
match_authors_of(match) ==
    [i \in DOMAIN match.authors |-> str_strip(str_lower(match.authors[i]))]

\* The condition of line 417-418: a specific target author.
specific_author(target_author) ==
    /\ target_author # <<>>
    /\ target_author \notin GenericAuthors
    /\ Len(target_author) > 2

\* if match.get('publication_year'): score += 5
year_bonus(match) == IF Truthy(match.publication_year) THEN FInt(5) ELSE FInt(0)

\* _calculate_relevance_score(match, target_title, target_author)
calculate_relevance_score_EitherBelow(match, target_title, target_author) ==
    LET title_score == score_title_relevance(target_title, match_title_of(match))
        author_score == score_author_relevance(target_author, match_authors_of(match))
        score == FAdd(FAdd(title_score, author_score), year_bonus(match))
    IN IF specific_author(target_author)
       THEN IF FLt(title_score, FInt(20)) \/ FLt(author_score, FInt(15))
            THEN FInt(0) ELSE score
       ELSE IF FLt(title_score, FInt(20)) THEN FInt(0) ELSE score

calculate_relevance_score(match, target_title, target_author) ==
    LET title_score == score_title_relevance(target_title, match_title_of(match))
        author_score == score_author_relevance(target_author, match_authors_of(match))
        score == FAdd(FAdd(title_score, author_score), year_bonus(match))
    IN IF specific_author(target_author)
       THEN IF FLt(title_score, FInt(20)) /\ FLt(author_score, FInt(15))
            THEN FInt(0) ELSE score
       ELSE IF FLt(title_score, FInt(20)) THEN FInt(0) ELSE score

\* if score > 0 (line 384)
is_relevant(score) == FLt(FInt(0), score)

\* One step of scored_matches.sort(key=score, reverse=True): Python's sort
\* is stable, also with reverse=True, so x goes behind every element whose
\* score is not smaller.
insert_by_score_Unstable(sorted, x) ==
    LET k == Cardinality({ i \in DOMAIN sorted : FLt(x.score, sorted[i].score) }) IN
    SubSeq(sorted, 1, k) \o <<x>> \o SubSeq(sorted, k + 1, Len(sorted))

insert_by_score(sorted, x) ==
    LET k == Cardinality({ i \in DOMAIN sorted : FGe(sorted[i].score, x.score) }) IN
    SubSeq(sorted, 1, k) \o <<x>> \o SubSeq(sorted, k + 1, Len(sorted))

RECURSIVE sort_by_score(_)
sort_by_score(scored) ==
    IF scored = <<>> THEN <<>>
    ELSE insert_by_score(sort_by_score(SubSeq(scored, 1, Len(scored) - 1)),
                         scored[Len(scored)])

\* The score of every candidate, as the loop of lines 382-385 computes it.
scores_of(matches, target_title, target_author) ==
    [i \in DOMAIN matches |->
        calculate_relevance_score(matches[i],
                                  str_strip(str_lower(target_title)),
                                  str_strip(str_lower(target_author)))]

\* Lines 384-391 of _filter_relevant_matches: the candidates whose score is
\* positive, sorted by score, highest first.
rank_matches(matches, scores) ==
    LET pairs == [i \in DOMAIN matches |-> [match |-> matches[i], score |-> scores[i]]]
        ranked == sort_by_score(SelectSeq(pairs, LAMBDA p : is_relevant(p.score)))
    IN [i \in DOMAIN ranked |-> ranked[i].match]

(***************************************************************************)
(* Bounds of the relevance filter's inputs                                 *)
(***************************************************************************)
\* Longest list of candidate records handed to the filter.
MaxMatches == 3

\* A parsed MODS record (lines 246-256), reduced to the fields the scorer reads.
Candidate(record_id, title, authors, pub_year) ==
    [record_id |-> record_id, title |-> title, authors |-> authors,
     publication_year |-> pub_year]

CandidatePool ==
    { Candidate("r1", Some(<<"E", "m", "m", "a">>), << <<"A", "u", "s", "t", "e", "n", ",", " ", "J", "a", "n", "e">> >>, Some(1815)),
      Candidate("r2", Some(<<>>), << <<"J", "a", "n", "e", " ", "A", "u", "s", "t", "e", "n">> >>, None),
      Candidate("r3", Some(<<"E", "m", "m", "a", "!">>), <<>>, Some(1815)),
      Candidate("r4", Some(<<"O", "l", "d", " ", "E", "m", "m", "a", ".">>), <<>>, Some(1815)),
      Candidate("r5", Some(<<"e", "m", "m", "a", " ", "a", "n", "d", " ", "c", "o">>), << <<"l", "i">> >>, None),
      Candidate("r6", Some(<<"z", "z", "z">>), << <<"s", "m", "i", "t", "h">>, <<"L", "i">> >>, Some(1815)),
      Candidate("r7", None, << <<"J", "a", "n", "e", " ", "A", "u", "s", "t", "e", "n">> >>, Some(1815)) }

\* The (title, author) pairs searched for: a specific author, a generic
\* one, none, a two-letter one, a title sharing one word in three, and the
\* empty title of search_by_author.
Targets ==
    { << <<"E", "m", "m", "a">>, <<"J", "a", "n", "e", " ", "A", "u", "s", "t", "e", "n">> >>,
      << <<"e", "m", "m", "a">>, <<"U", "n", "k", "n", "o", "w", "n">> >>,
      << <<"e", "m", "m", "a">>, <<>> >>,
      << <<"e", "m", "m", "a">>, <<"L", "i">> >>,
      << <<"o", "l", "d", " ", "e", "m", "m", "a">>, <<"a", "u", "s", "t", "e", "n">> >>,
      << <<>>, <<"J", "a", "n", "e", " ", "A", "u", "s", "t", "e", "n">> >> }

MatchLists == SeqsUpTo(CandidatePool, MaxMatches)

RelIdle ==
    /\ rel_title = <<>>
    /\ rel_author = <<>>
    /\ rel_matches = <<>>
    /\ rel_scores = <<>>
    /\ rel_result = [kind |-> "none"]
    /\ rel_pc = "ready"

(***************************************************************************)
(* MetadataNormalizer: text helpers                                        *)
(***************************************************************************)
Digits == << "0", "1", "2", "3", "4", "5", "6", "7", "8", "9" >>

IsDigit(ch) == \E k \in DOMAIN Digits : Digits[k] = ch

\* int() of one decimal digit
DigitVal(ch) == (CHOOSE k \in DOMAIN Digits : Digits[k] = ch) - 1

\* \w of the regular expressions
IsWordChar(ch) ==
    \/ IsDigit(ch)
    \/ ch = "_"
    \/ \E k \in DOMAIN UpperLetters : UpperLetters[k] = ch \/ LowerLetters[k] = ch

\* \b at the gap in front of position i of s (1 <= i <= Len(s) + 1)
WordBoundary(s, i) ==
    LET before == i > 1 /\ IsWordChar(s[i - 1])
        after == i <= Len(s) /\ IsWordChar(s[i])
    IN before # after

\* s.replace(old, new), old non-empty
RECURSIVE str_replace(_, _, _)
str_replace(s, old, new) ==
    IF Len(s) < Len(old) THEN s
    ELSE IF SubSeq(s, 1, Len(old)) = old
    THEN new \o str_replace(SubSeq(s, Len(old) + 1, Len(s)), old, new)
    ELSE <<s[1]>> \o str_replace(Tail(s), old, new)

\* re.sub(r'\s+', ' ', s)
RECURSIVE collapse_spaces(_)
collapse_spaces(s) ==
    IF s = <<>> THEN <<>>
    ELSE IF IsSpace(s[1])
    THEN <<" ">> \o collapse_spaces(str_lstrip(s))
    ELSE <<s[1]>> \o collapse_spaces(Tail(s))

\* re.sub(r'\s*\([^)]*\)', '', s): every parenthesised part goes, with the
\* whitespace in front of it.
RECURSIVE remove_parenthesised(_)
remove_parenthesised(s) ==
    LET opens == { i \in DOMAIN s :
                     s[i] = "(" /\ \E j \in (i + 1)..Len(s) : s[j] = ")" }
    IN IF opens = {} THEN s
       ELSE LET i == CHOOSE x \in opens : \A y \in opens : x <= y
                j == CHOOSE x \in (i + 1)..Len(s) :
                         s[x] = ")" /\ \A y \in (i + 1)..(x - 1) : s[y] # ")"
            IN str_rstrip(SubSeq(s, 1, i - 1))
                   \o remove_parenthesised(SubSeq(s, j + 1, Len(s)))

\* The alternatives of (Jr\.?|Sr\.?|III?|IV|PhD|Dr\.?|Prof\.?), lower-cased
\* for re.IGNORECASE, and those that may take a dot.
NameTitles == { <<"j", "r">>, <<"s", "r">>, <<"i", "i">>, <<"i", "i", "i">>, <<"i", "v">>, <<"p", "h", "d">>, <<"d", "r">>, <<"p", "r", "o", "f">> }
DottedNameTitles == { <<"j", "r">>, <<"s", "r">>, <<"d", "r">>, <<"p", "r", "o", "f">> }

\* re.sub(r'\b(Jr\.?|Sr\.?|III?|IV|PhD|Dr\.?|Prof\.?)\b', '', s,
\* flags=re.IGNORECASE), scanning from position i: a whole word that is one
\* of the titles goes, and its dot too when a word character follows the dot.
RECURSIVE remove_name_titles(_, _)
remove_name_titles(s, i) ==
    IF i > Len(s) THEN <<>>
    ELSE IF ~IsWordChar(s[i]) THEN <<s[i]>> \o remove_name_titles(s, i + 1)
    ELSE LET j == CHOOSE x \in i..Len(s) :
                      /\ \A y \in i..x : IsWordChar(s[y])
                      /\ (x = Len(s) \/ ~IsWordChar(s[x + 1]))
             word == SubSeq(s, i, j)
             dotted == /\ str_lower(word) \in DottedNameTitles
                       /\ j + 2 <= Len(s)
                       /\ s[j + 1] = "."
                       /\ IsWordChar(s[j + 2])
         IN IF str_lower(word) \in NameTitles
            THEN remove_name_titles(s, IF dotted THEN j + 2 ELSE j + 1)
            ELSE word \o remove_name_titles(s, j + 1)

\* MetadataNormalizer.normalize_author_name(name)
normalize_author_name(name) ==
    IF name = <<>> THEN <<>>
    ELSE LET collapsed == collapse_spaces(str_strip(name))
             parts == str_split_comma(collapsed)
             flipped == IF Len(parts) = 2
                        THEN str_strip(parts[2]) \o <<" ">> \o str_strip(parts[1])
                        ELSE collapsed
         IN str_strip(remove_name_titles(remove_parenthesised(flipped), 1))

\* Whether the four characters of s from position i spell a year the
\* pattern 1[5-9]\d{2}|20[0-9]\d accepts, as a whole word.
YearAt(s, i) ==
    /\ i + 3 <= Len(s)
    /\ \A k \in i..(i + 3) : IsDigit(s[k])
    /\ \/ s[i] = "1" /\ DigitVal(s[i + 1]) >= 5
       \/ s[i] = "2" /\ s[i + 1] = "0"
    /\ WordBoundary(s, i)
    /\ WordBoundary(s, i + 4)

\* MetadataNormalizer.extract_publication_year(date_string)
extract_publication_year(date_string) ==
    IF date_string = <<>> THEN None
    ELSE IF \E i \in DOMAIN date_string : YearAt(date_string, i)
    THEN LET i == CHOOSE x \in DOMAIN date_string :
                      YearAt(date_string, x) /\ \A y \in 1..(x - 1) : ~YearAt(date_string, y)
         IN Some(1000 * DigitVal(date_string[i]) + 100 * DigitVal(date_string[i + 1])
                 + 10 * DigitVal(date_string[i + 2]) + DigitVal(date_string[i + 3]))
    ELSE None

\* corporate_indicators and anonymous_indicators of determine_work_type
CorporateIndicators ==
    { <<"c", "o", "m", "p", "a", "n", "y">>, <<"c", "o", "r", "p", "o", "r", "a", "t", "i", "o", "n">>, <<"i", "n", "c", ".">>, <<"l", "t", "d", ".">>, <<"l", "l", "c">>, <<"u", "n", "i", "v", "e", "r", "s", "i", "t", "y">>, <<"p", "r", "e", "s", "s">>,
      <<"g", "o", "v", "e", "r", "n", "m", "e", "n", "t">> }

AnonymousIndicators == { <<"a", "n", "o", "n", "y", "m", "o", "u", "s">>, <<"u", "n", "k", "n", "o", "w", "n">>, <<"v", "a", "r", "i", "o", "u", "s">>, <<"a", "n", "o", "n", ".">> }

\* MetadataNormalizer.determine_work_type(metadata), from the author name
determine_work_type(author_name) ==
    LET lowered == str_lower(author_name) IN
    IF \E ind \in CorporateIndicators : str_in(ind, lowered) THEN "work_for_hire"
    ELSE IF \E ind \in AnonymousIndicators : str_in(ind, lowered) THEN "anonymous"
    ELSE "individual"

\* A Python dict: a function on its keys.
EmptyDict == [k \in {} |-> k]

DictSet(d, key, value) ==
    [k \in DOMAIN d \cup {key} |-> IF k = key THEN value ELSE d[k]]

(***************************************************************************)
(* MetadataNormalizer: merge_api_responses and create_work_record          *)
(***************************************************************************)
FMul(a, b) == Reduced(a.n * b.n, a.d * b.d)
FDiv(a, b) == Reduced(a.n * b.d, a.d * b.n)

\* APIResponse(success=..., data=..., error=..., confidence=...)
APIResponse(success, data, error, confidence) ==
    [success |-> success, data |-> data, error |-> error, confidence |-> confidence]

\* `response and response.success and response.data`, then its best match:
\* the record a source contributes, None when it contributes nothing.
usable_match(response) ==
    IF response = None THEN None
    ELSE IF ~Val(response).success \/ Val(response).data = None THEN None
    ELSE Val(Val(response).data).best

\* The dict merge_api_responses starts from (lines 91-102).
merged_start(search_title, search_author) ==
    [title |-> <<>>, author_name |-> <<>>, publication_year |-> None,
     author_death_year |-> None, country |-> "US",
     confidence_sources |-> EmptyDict, source_links |-> EmptyDict,
     hathi_rights |-> None, work_type |-> None,
     search_title |-> search_title, search_author |-> search_author]

\* Lines 135-147: the first listed author that matches the author searched
\* for, else the first author.
author_matches(author, target_author_lower) ==
    LET normalized == str_lower(normalize_author_name(author)) IN
    \/ str_in(target_author_lower, normalized)
    \/ str_in(normalized, target_author_lower)
    \/ str_in(str_replace(target_author_lower, <<" ">>, <<",", " ">>), str_lower(author))
    \/ str_in(str_replace(target_author_lower, <<",", " ">>, <<" ">>), normalized)

select_author(authors, target_author_lower) ==
    LET hits == { i \in DOMAIN authors : author_matches(authors[i], target_author_lower) }
        first == CHOOSE i \in hits : \A j \in hits : i <= j
    IN IF hits = {} \/ authors[first] = <<>> THEN authors[1] ELSE authors[first]

\* Lines 116-124: whether the Library of Congress title is taken.
loc_title_accepted(loc_title, search_title, confidence) ==
    LET a == str_lower(loc_title)
        b == str_lower(search_title)
        min_len == Min(Len(a), Len(b))
        max_len == Max(Len(a), Len(b))
        similar == /\ (str_in(b, a) \/ str_in(a, b))
                   /\ max_len > 0
                   /\ 10 * min_len > 6 * max_len
    IN similar \/ FLt(Frac(7, 10), confidence)

\* Lines 104-159: the Library of Congress response.
merge_loc(merged, loc_response) ==
    IF usable_match(loc_response) = None THEN merged
    ELSE LET best_match == Val(usable_match(loc_response))
             confidence == Val(loc_response).confidence
         IN [merged EXCEPT
               !.title =
                   IF /\ best_match.title # <<>>
                      /\ merged.title = <<>>
                      /\ loc_title_accepted(best_match.title, merged.search_title, confidence)
                   THEN best_match.title ELSE @,
               !.author_name =
                   IF best_match.authors # <<>> /\ merged.author_name = <<>>
                   THEN normalize_author_name(
                            select_author(best_match.authors, str_lower(merged.search_author)))
                   ELSE @,
               !.publication_year =
                   IF Truthy(best_match.publication_year) /\ ~Truthy(merged.publication_year)
                   THEN best_match.publication_year ELSE @,
               !.source_links =
                   IF best_match.url # None THEN DictSet(@, "loc", Val(best_match.url)) ELSE @,
               !.confidence_sources = DictSet(@, "loc", confidence)]

\* merged['confidence_sources'].get('loc', 0)
loc_confidence(merged) ==
    IF "loc" \in DOMAIN merged.confidence_sources
    THEN merged.confidence_sources["loc"] ELSE FInt(0)

\* Lines 161-187: the HathiTrust response.
merge_hathi(merged, hathi_response) ==
    IF usable_match(hathi_response) = None THEN merged
    ELSE LET best_volume == Val(usable_match(hathi_response))
             confidence == Val(hathi_response).confidence
             pub_year == extract_publication_year(best_volume.publication_date)
         IN [merged EXCEPT
               !.title =
                   IF /\ best_volume.title # <<>>
                      /\ (merged.title = <<>> \/ FLt(loc_confidence(merged), confidence))
                   THEN best_volume.title ELSE @,
               !.publication_year =
                   IF Truthy(pub_year) /\ ~Truthy(merged.publication_year)
                   THEN pub_year ELSE @,
               !.source_links =
                   IF best_volume.url # None
                   THEN DictSet(@, "hathitrust", Val(best_volume.url)) ELSE @,
               !.hathi_rights =
                   IF Val(Val(hathi_response).data).rights_summary # None
                   THEN Val(Val(hathi_response).data).rights_summary ELSE @,
               !.confidence_sources = DictSet(@, "hathitrust", confidence)]

\* Lines 189-208: the MusicBrainz work response.
merge_musicbrainz(merged, musicbrainz_response) ==
    IF usable_match(musicbrainz_response) = None THEN merged
    ELSE LET best_match == Val(usable_match(musicbrainz_response))
             confidence == Val(musicbrainz_response).confidence
         IN [merged EXCEPT
               !.title =
                   IF best_match.title # <<>> /\ merged.title = <<>>
                   THEN best_match.title ELSE @,
               !.author_name =
                   IF best_match.composers # <<>> /\ merged.author_name = <<>>
                   THEN normalize_author_name(best_match.composers[1]) ELSE @,
               !.source_links =
                   IF best_match.url # None
                   THEN DictSet(@, "musicbrainz", Val(best_match.url)) ELSE @,
               !.confidence_sources = DictSet(@, "musicbrainz", confidence)]

\* Lines 210-222: the MusicBrainz artist response.
merge_artist(merged, musicbrainz_artist_response) ==
    IF usable_match(musicbrainz_artist_response) = None THEN merged
    ELSE LET best_artist == Val(usable_match(musicbrainz_artist_response)) IN
         [merged EXCEPT
            !.author_death_year =
                IF Truthy(best_artist.death_year) /\ ~Truthy(merged.author_death_year)
                THEN best_artist.death_year ELSE @,
            !.country =
                IF best_artist.country # None THEN Val(best_artist.country) ELSE @]

\* Lines 224-227: the work type, then the dict is returned.
merge_finish(merged) ==
    [merged EXCEPT !.work_type = Some(determine_work_type(merged.author_name))]

\* merged_metadata.get('copyright_type', 'individual') of analyze_work
\* (us_analyzer.py, line 127): the category handed to the calculator.
calculator_work_type(merged_metadata) ==
    IF "copyright_type" \in DOMAIN merged_metadata
    THEN merged_metadata.copyright_type ELSE "individual"

\* weights.get(source, 0.2) of create_work_record
source_weight_Uniform(source) == Frac(3, 10)

source_weight(source) ==
    CASE source = "loc" -> Frac(4, 10)
      [] source = "hathitrust" -> Frac(3, 10)
      [] source = "musicbrainz" -> Frac(3, 10)
      [] OTHER -> Frac(2, 10)

\* The two sums of the loop of lines 264-267 over the given sources.
RECURSIVE weighted_confidence(_, _)
weighted_confidence(confidence_sources, sources) ==
    IF sources = {} THEN FInt(0)
    ELSE LET s == CHOOSE x \in sources : TRUE IN
         FAdd(FMul(confidence_sources[s], source_weight(s)),
              weighted_confidence(confidence_sources, sources \ {s}))

RECURSIVE total_weight(_)
total_weight(sources) ==
    IF sources = {} THEN FInt(0)
    ELSE LET s == CHOOSE x \in sources : TRUE IN
         FAdd(source_weight(s), total_weight(sources \ {s}))

\* Lines 256-269: record.confidence_score
confidence_score_of(confidence_sources) ==
    IF DOMAIN confidence_sources = {} THEN FInt(0)
    ELSE FDiv(weighted_confidence(confidence_sources, DOMAIN confidence_sources),
              total_weight(DOMAIN confidence_sources))

\* x or y, on strings
StrOr(x, y) == IF x # <<>> THEN x ELSE y

\* MetadataNormalizer.create_work_record(title, author, merged_metadata,
\* copyright_analysis), with the instant datetime.utcnow() returns.
create_work_record(title, author, merged_metadata, copyright_analysis, utcnow) ==
    [title |-> StrOr(merged_metadata.title, title),
     author_name |-> StrOr(merged_metadata.author_name, author),
     publication_year |-> merged_metadata.publication_year,
     year_of_death |-> merged_metadata.author_death_year,
     country |-> merged_metadata.country,
     work_type |-> merged_metadata.work_type,
     source_links |-> merged_metadata.source_links,
     queried_at |-> utcnow,
     status |-> copyright_analysis.status,
     enters_public_domain |-> copyright_analysis.pd_year,
     notes |-> copyright_analysis.explanation,
     confidence_score |-> confidence_score_of(merged_metadata.confidence_sources)]


(***************************************************************************)
(* Bounds of the reconciler's inputs                                       *)
(***************************************************************************)
\* Runs of merge + create over the same responses, and readings of the clock.
MaxRuns == 2
MaxClock == 1

\* results['best_match'] of the Library of Congress client
LocMatch(title, authors, pub_year, url) ==
    [title |-> title, authors |-> authors, publication_year |-> pub_year, url |-> url]

\* data['best_volume'] and data['rights_summary'] of the HathiTrust client
HathiVolume(title, publication_date, url) ==
    [title |-> title, publication_date |-> publication_date, url |-> url]

\* data['best_match'] of the MusicBrainz work search
MusicBrainzWork(title, composers, url) ==
    [title |-> title, composers |-> composers, url |-> url]

\* data['best_match'] of the MusicBrainz artist search
MusicBrainzArtist(death_year, country) ==
    [death_year |-> death_year, country |-> country]

Failed == Some(APIResponse(FALSE, None, "timed out", FInt(0)))

Found(best, confidence) ==
    Some(APIResponse(TRUE, Some([best |-> Some(best), rights_summary |-> None]), "",
                     confidence))

FoundWithRights(best, rights, confidence) ==
    Some(APIResponse(TRUE, Some([best |-> Some(best), rights_summary |-> Some(rights)]),
                     "", confidence))

NothingFound ==
    Some(APIResponse(TRUE, Some([best |-> None, rights_summary |-> None]), "", FInt(0)))

loc_emma == LocMatch(<<"E", "m", "m", "a">>, << <<"A", "u", "s", "t", "e", "n", ",", " ", "J", "a", "n", "e">> >>, Some(1815), Some("loc/emma"))

loc_anthology ==
    LocMatch(<<"E", "m", "m", "a", " ", "e", "t", "c">>, << <<"S", "m", "i", "t", "h", ",", " ", "J", "o", "h", "n">>, <<"A", "u", "s", "t", "e", "n", ",", " ", "J", "a", "n", "e", " ", "(", "1", "7", "7", "5", "-", "1", "8", "1", "7", ")">> >>, None, None)

\* A report of 1980 by a corporate author.
loc_report == LocMatch(<<"E", "m", "m", "a">>, << <<"A", "c", "m", "e", " ", "P", "r", "e", "s", "s">> >>, Some(1980), None)

LocResponses ==
    { None, Failed, NothingFound,
      Found(loc_emma, Frac(5, 10)), Found(loc_emma, Frac(9, 10)),
      Found(loc_anthology, Frac(5, 10)), Found(loc_anthology, Frac(9, 10)),
      Found(loc_report, Frac(9, 10)) }

hathi_emma == HathiVolume(<<"E", "M", "M", "A", ".">>, <<"1", "8", "1", "6">>, Some("hathi/emma"))
hathi_untitled == HathiVolume(<<>>, <<"c", "1", "8", "1", "6">>, None)

HathiResponses ==
    { None, Failed,
      FoundWithRights(hathi_emma, "pd", Frac(5, 10)),
      FoundWithRights(hathi_emma, "pd", Frac(8, 10)),
      Found(hathi_untitled, Frac(8, 10)) }

mb_emma == MusicBrainzWork(<<"E", "m", "m", "a", " ", "(", "o", "p", "e", "r", "a", ")">>, << <<"M", "e", "y", "e", "r", ",", " ", "H", "a", "n", "s">> >>, Some("mb/emma"))

MusicBrainzResponses == { None, Failed, Found(mb_emma, Frac(9, 10)) }

ArtistResponses ==
    { None, Failed,
      Found(MusicBrainzArtist(Some(1817), Some("GB")), Frac(9, 10)),
      Found(MusicBrainzArtist(None, None), Frac(9, 10)) }

Queries == { << <<"E", "m", "m", "a">>, <<"J", "a", "n", "e", " ", "A", "u", "s", "t", "e", "n">> >>, << <<"e", "m", "m", "a">>, <<>> >> }

\* The arguments of one merge_api_responses call.
RecInputs ==
    { [kind |-> "query", loc |-> l, hathi |-> h, musicbrainz |-> m, artist |-> a,
       search_title |-> q[1], search_author |-> q[2]] :
        l \in LocResponses, h \in HathiResponses, m \in MusicBrainzResponses,
        a \in ArtistResponses, q \in Queries }

\* Merged metadata a caller hands to create_work_record directly: with a
\* source the weights do not list, and with no source at all.
DirectMetadata ==
    { [merged_start(<<"E", "m", "m", "a">>, <<"J", "a", "n", "e", " ", "A", "u", "s", "t", "e", "n">>) EXCEPT
          !.work_type = Some("individual"),
          !.confidence_sources =
              DictSet(DictSet(EmptyDict, "openlibrary", Frac(5, 10)), "loc", Frac(9, 10))],
      [merged_start(<<"E", "m", "m", "a">>, <<"J", "a", "n", "e", " ", "A", "u", "s", "t", "e", "n">>) EXCEPT
          !.work_type = Some("individual"),
          !.confidence_sources = DictSet(EmptyDict, "openlibrary", Frac(6, 10))] }

RecIdle ==
    /\ rec_in = [kind |-> "none"]
    /\ rec_merged = [kind |-> "none"]
    /\ rec_records = <<>>
    /\ rec_clock = 0
    /\ rec_pc = "ready"

(***************************************************************************)
(* ExternalAPIService: search_all_sources and its two source searches      *)
(***************************************************************************)
\* works[:n]
Take(works, n) == SubSeq(works, 1, Min(n, Len(works)))

\* What awaiting a client call comes to: the value returned, or the
\* exception raised (a transport failure or a timeout).
ClientRaised(error) == [kind |-> "raised", error |-> error]
ClientReturned(value) == [kind |-> "returned", value |-> value]

\* ExternalServiceError(service, str(e), e)
ExternalServiceError(service, e) ==
    [kind |-> "raised", error |-> "ExternalServiceError", service |-> service,
     original_error |-> e]

\* The loop of lines 126-128: every work gets the source tag and priority.
tag_loc_work(work) ==
    DictSet(DictSet(work, "api_source", "library_of_congress"), "source_priority", 1)

\* ExternalAPIService._search_library_of_congress(title, author, limit),
\* loc_client being what the client call made comes to; the client's own
\* matches[:limit] is applied to its result with the limit * 2 it is given.
search_library_of_congress(title, author, limit, loc_client) ==
    IF ~TruthyStr(author) /\ ~TruthyStr(title)
    THEN ClientReturned(<<>>)
    ELSE IF loc_client.kind = "raised"
    THEN ExternalServiceError("Library of Congress", loc_client.error)
    ELSE LET works == Take(loc_client.value, limit * 2) IN
         ClientReturned(Take([i \in 1..Len(works) |-> tag_loc_work(works[i])], limit))

\* ', '.join(names)
RECURSIVE str_join(_)
str_join(names) ==
    IF names = <<>> THEN <<>>
    ELSE IF Len(names) = 1 THEN names[1]
    ELSE names[1] \o <<",", " ">> \o str_join(Tail(names))

\* formatted_work of lines 173-188
format_musicbrainz_work(work) ==
    [title |-> work.title,
     author |-> IF work.composers # <<>> THEN str_join(work.composers)
                ELSE <<"U", "n", "k", "n", "o", "w", "n">>,
     publication_year |-> work.earliest_release_year,
     url |-> work.url, format |-> "music", source |-> "musicbrainz",
     api_source |-> "musicbrainz", source_priority |-> 2]

\* Lines 169-191: the works of a MusicBrainz response, formatted and cut.
musicbrainz_works(mb_response, limit) ==
    IF mb_response.success /\ mb_response.data # None
    THEN LET mb_works == Val(mb_response.data).works IN
         Take([i \in 1..Len(mb_works) |-> format_musicbrainz_work(mb_works[i])], limit)
    ELSE <<>>

\* ExternalAPIService._search_musicbrainz(title, author, limit), mb_works
\* and mb_artists being what search_works and search_artists come to.
search_musicbrainz(title, author, limit, mb_works, mb_artists) ==
    IF TruthyStr(author) /\ TruthyStr(title)
    THEN IF mb_works.kind = "raised"
         THEN ExternalServiceError("MusicBrainz", mb_works.error)
         ELSE ClientReturned(musicbrainz_works(mb_works.value, limit))
    ELSE IF TruthyStr(author)
    THEN IF mb_artists.kind = "raised"
         THEN ExternalServiceError("MusicBrainz", mb_artists.error)
         ELSE IF mb_artists.value.success /\ mb_artists.value.data # None
                 /\ Val(mb_artists.value.data).best # None
         THEN IF mb_works.kind = "raised"
              THEN ExternalServiceError("MusicBrainz", mb_works.error)
              ELSE ClientReturned(musicbrainz_works(mb_works.value, limit))
         ELSE ClientReturned(<<>>)
    ELSE IF TruthyStr(title)
    THEN IF mb_works.kind = "raised"
         THEN ExternalServiceError("MusicBrainz", mb_works.error)
         ELSE ClientReturned(musicbrainz_works(mb_works.value, limit))
    ELSE ClientReturned(<<>>)

\* Lines 74-83: which searches become tasks, in the order they are appended.
search_tasks(title, author, wt) ==
    (IF TruthyStr(title) \/ TruthyStr(author) THEN <<"library_of_congress">> ELSE <<>>)
    \o (IF (wt = Some(<<"m", "u", "s", "i", "c", "a", "l">>) \/ ~TruthyStr(wt))
           /\ (TruthyStr(title) \/ TruthyStr(author))
        THEN <<"musicbrainz">> ELSE <<>>)

\* Lines 91-100: exceptions among the gathered results are skipped, lists
\* are appended in task order.
RECURSIVE combine_results(_)
combine_results(results) ==
    IF results = <<>> THEN ClientReturned(<<>>)
    ELSE LET rest == combine_results(Tail(results)) IN
         IF Head(results).kind = "raised" THEN rest
         ELSE ClientReturned(Head(results).value \o rest.value)

\* asyncio.gather(*tasks, return_exceptions=True): one result per task, in
\* task order, an exception standing for the task that raised it.
gather(tasks, loc_result, mb_result) ==
    [i \in 1..Len(tasks) |->
        IF tasks[i] = "library_of_congress" THEN loc_result ELSE mb_result]

(***************************************************************************)
(* Bounds of the search service's inputs                                   *)
(***************************************************************************)
MaxLimit == 2

s_emma == <<"E", "m", "m", "a">>
s_li == <<"L", "i">>
s_bach == <<"B", "a", "c", "h">>
s_musical == <<"m", "u", "s", "i", "c", "a", "l">>
s_literary == <<"l", "i", "t", "e", "r", "a", "r", "y">>

\* The i-th formatted result of the Library of Congress client
loc_work(i) == [title |-> s_emma, author |-> s_li, url |-> <<"loc", i>>]

\* The i-th entry of data['works'] of a MusicBrainz response
mb_work(i) ==
    [title |-> s_emma,
     composers |-> IF i % 3 = 1 THEN <<s_li>>
                   ELSE IF i % 3 = 2 THEN <<>> ELSE <<s_li, s_bach>>,
     earliest_release_year |-> IF i % 2 = 0 THEN None ELSE Some(1900 + i),
     url |-> <<"mb", i>>]

ServiceTitles == {None, Some(<<>>), Some(s_emma)}
ServiceAuthors == {None, Some(<<>>), Some(s_li)}
ServiceWorkTypes == {None, Some(<<>>), Some(s_musical), Some(s_literary)}

\* The client is asked for limit * 2 results and may hold more than that.
LocClientOutcomes ==
    {ClientRaised("TimeoutError")}
    \cup { ClientReturned([i \in 1..k |-> loc_work(i)]) : k \in 0..(2 * MaxLimit + 1) }

WorksClientOutcomes ==
    {ClientRaised("TimeoutError"),
     ClientReturned(APIResponse(FALSE, None, "HTTP 503", FInt(0))),
     ClientReturned(APIResponse(TRUE, None, "", FInt(0)))}
    \cup { ClientReturned(APIResponse(TRUE, Some([works |-> [i \in 1..k |-> mb_work(i)]]),
                                      "", FInt(1))) : k \in 0..(MaxLimit + 1) }

ArtistsClientOutcomes ==
    {ClientRaised("TimeoutError"),
     ClientReturned(APIResponse(FALSE, None, "HTTP 503", FInt(0))),
     ClientReturned(APIResponse(TRUE, Some([best |-> None]), "", FInt(0))),
     ClientReturned(APIResponse(TRUE, Some([best |-> Some(s_li)]), "", FInt(1)))}

ServiceInputs ==
    [title : ServiceTitles, author : ServiceAuthors, work_type : ServiceWorkTypes,
     limit : 1..MaxLimit, loc_client : LocClientOutcomes,
     mb_works : WorksClientOutcomes, mb_artists : ArtistsClientOutcomes]

NoQuery ==
    [title |-> None, author |-> None, work_type |-> None, limit |-> 1,
     loc_client |-> ClientReturned(<<>>),
     mb_works |-> ClientRaised("TimeoutError"),
     mb_artists |-> ClientRaised("TimeoutError")]

NoOutcome == [op |-> "none", outcome |-> ClientReturned(<<>>)]

SvcIdle ==
    /\ svc_in = NoQuery
    /\ svc_result = NoOutcome
    /\ svc_pc = "idle"

(***************************************************************************)
(* LibraryOfCongressClient._extract_work_type_from_mods                    *)
(***************************************************************************)
\* A MODS element is read through four queries: the texts of its
\* typeOfResource, genre, subject/topic and physicalDescription/form
\* elements, in document order; an element without text has the text ''.
MusicalResourceTerms ==
    {<<"n", "o", "t", "a", "t", "e", "d", " ", "m", "u", "s", "i", "c">>,
     <<"s", "o", "u", "n", "d", " ", "r", "e", "c", "o", "r", "d", "i", "n", "g", "-", "m", "u", "s", "i", "c", "a", "l">>,
     <<"s", "o", "u", "n", "d", " ", "r", "e", "c", "o", "r", "d", "i", "n", "g">>}

LiteraryResourceTerms ==
    {<<"t", "e", "x", "t">>,
     <<"m", "i", "x", "e", "d", " ", "m", "a", "t", "e", "r", "i", "a", "l">>}

MusicalGenreTerms ==
    {<<"m", "u", "s", "i", "c">>, <<"m", "u", "s", "i", "c", "a", "l">>,
     <<"s", "o", "n", "g">>, <<"o", "p", "e", "r", "a">>,
     <<"s", "y", "m", "p", "h", "o", "n", "y">>,
     <<"c", "o", "n", "c", "e", "r", "t", "o">>,
     <<"s", "o", "n", "a", "t", "a">>,
     <<"c", "o", "m", "p", "o", "s", "i", "t", "i", "o", "n">>,
     <<"s", "c", "o", "r", "e">>,
     <<"r", "e", "c", "o", "r", "d", "i", "n", "g">>}

LiteraryGenreTerms ==
    {<<"b", "o", "o", "k">>, <<"n", "o", "v", "e", "l">>,
     <<"b", "i", "o", "g", "r", "a", "p", "h", "y">>,
     <<"e", "s", "s", "a", "y">>, <<"p", "o", "e", "t", "r", "y">>,
     <<"f", "i", "c", "t", "i", "o", "n">>,
     <<"n", "o", "n", "f", "i", "c", "t", "i", "o", "n">>,
     <<"l", "i", "t", "e", "r", "a", "t", "u", "r", "e">>,
     <<"m", "e", "m", "o", "i", "r">>,
     <<"a", "u", "t", "o", "b", "i", "o", "g", "r", "a", "p", "h", "y">>}

MusicalSubjectTerms ==
    {<<"m", "u", "s", "i", "c">>,
     <<"c", "o", "m", "p", "o", "s", "e", "r", "s">>,
     <<"m", "u", "s", "i", "c", "a", "l">>,
     <<"m", "u", "s", "i", "c", "i", "a", "n", "s">>,
     <<"s", "o", "n", "g", "s">>}

LiterarySubjectTerms ==
    {<<"l", "i", "t", "e", "r", "a", "t", "u", "r", "e">>,
     <<"a", "u", "t", "h", "o", "r", "s">>, <<"b", "o", "o", "k", "s">>,
     <<"w", "r", "i", "t", "i", "n", "g">>, <<"n", "o", "v", "e", "l", "s">>}

MusicalFormTerms ==
    {<<"s", "o", "u", "n", "d">>, <<"a", "u", "d", "i", "o">>,
     <<"m", "u", "s", "i", "c", "a", "l">>}

LiteraryFormTerms ==
    {<<"t", "e", "x", "t">>, <<"p", "r", "i", "n", "t">>,
     <<"e", "l", "e", "c", "t", "r", "o", "n", "i", "c", " ", "r", "e", "s", "o", "u", "r", "c", "e">>}

\* any(term in text for term in terms)
any_term_in(terms, text) == \E term \in terms : str_in(term, text)

\* text.lower().strip()
lower_strip(text) == str_strip(str_lower(text))

Classified(wt, hundredths) == [work_type |-> wt, confidence |-> Frac(hundredths, 100)]

\* Lines 269-276: mods_elem.find returns the first typeOfResource element;
\* the rung decides when that element's text holds a known term.
resource_type_rung(types) ==
    IF types # <<>> /\ types[1] # <<>>
    THEN LET resource_type == lower_strip(types[1]) IN
         IF any_term_in(MusicalResourceTerms, resource_type)
         THEN Some(Classified("musical", 95))
         ELSE IF any_term_in(LiteraryResourceTerms, resource_type)
         THEN Some(Classified("literary", 95))
         ELSE None
    ELSE None

\* How many elements with text count for the first term list, and how many
\* for the second without counting for the first (the if / elif of the
\* loops of lines 282-296 and 306-317).
RECURSIVE count_first(_, _)
count_first(texts, first) ==
    IF texts = <<>> THEN 0
    ELSE (IF Head(texts) # <<>> /\ any_term_in(first, lower_strip(Head(texts)))
          THEN 1 ELSE 0) + count_first(Tail(texts), first)

RECURSIVE count_second(_, _, _)
count_second(texts, first, second) ==
    IF texts = <<>> THEN 0
    ELSE (IF /\ Head(texts) # <<>>
             /\ ~any_term_in(first, lower_strip(Head(texts)))
             /\ any_term_in(second, lower_strip(Head(texts)))
          THEN 1 ELSE 0) + count_second(Tail(texts), first, second)

\* Lines 278-301
genre_rung(genres) ==
    LET musical_genre_score == count_first(genres, MusicalGenreTerms)
        literary_genre_score == count_second(genres, MusicalGenreTerms, LiteraryGenreTerms)
    IN IF musical_genre_score > literary_genre_score
       THEN Some(Classified("musical", 90))
       ELSE IF literary_genre_score > musical_genre_score
       THEN Some(Classified("literary", 90))
       ELSE None

\* Lines 303-322
subject_rung(subjects) ==
    LET musical_subjects == count_first(subjects, MusicalSubjectTerms)
        literary_subjects == count_second(subjects, MusicalSubjectTerms,
                                          LiterarySubjectTerms)
    IN IF musical_subjects > literary_subjects /\ musical_subjects > 0
       THEN Some(Classified("musical", 80))
       ELSE IF literary_subjects > musical_subjects /\ literary_subjects > 0
       THEN Some(Classified("literary", 80))
       ELSE None

\* Lines 324-332: the first form element whose text holds a known term.
RECURSIVE form_rung(_)
form_rung(forms) ==
    IF forms = <<>> THEN None
    ELSE IF Head(forms) # <<>> /\ any_term_in(MusicalFormTerms, lower_strip(Head(forms)))
    THEN Some(Classified("musical", 75))
    ELSE IF Head(forms) # <<>> /\ any_term_in(LiteraryFormTerms, lower_strip(Head(forms)))
    THEN Some(Classified("literary", 75))
    ELSE form_rung(Tail(forms))

\* LibraryOfCongressClient._extract_work_type_from_mods(mods_elem), with
\* mods_elem None or the element's four lists of texts.
extract_work_type_from_mods(mods_elem) ==
    IF mods_elem = None THEN Classified("literary", 50)
    ELSE LET m == Val(mods_elem) IN
         IF resource_type_rung(m.types) # None THEN Val(resource_type_rung(m.types))
         ELSE IF genre_rung(m.genres) # None THEN Val(genre_rung(m.genres))
         ELSE IF subject_rung(m.subjects) # None THEN Val(subject_rung(m.subjects))
         ELSE IF form_rung(m.forms) # None THEN Val(form_rung(m.forms))
         ELSE Classified("literary", 70)

(***************************************************************************)
(* Bounds of the MODS records                                              *)
(***************************************************************************)
MaxElems == 2

TypeTexts ==
    {<<>>, <<" ", "T", "e", "x", "t">>,
     <<"n", "o", "t", "a", "t", "e", "d", " ", "m", "u", "s", "i", "c">>,
     <<"c", "a", "r", "t", "o", "g", "r", "a", "p", "h", "i", "c">>}

GenreTexts ==
    {<<"O", "p", "e", "r", "a", " ">>, <<"n", "o", "v", "e", "l">>,
     <<"m", "a", "p">>}

SubjectTexts ==
    {<<"C", "o", "m", "p", "o", "s", "e", "r", "s">>,
     <<"a", "u", "t", "h", "o", "r", "s">>}

FormTexts ==
    {<<"a", "u", "d", "i", "o">>, <<"p", "r", "i", "n", "t">>,
     <<"m", "i", "c", "r", "o", "f", "i", "l", "m">>}

ModsElements ==
    {None} \cup
    { Some(m) : m \in [types : SeqsUpTo(TypeTexts, MaxElems),
                       genres : SeqsUpTo(GenreTexts, MaxElems),
                       subjects : SeqsUpTo(SubjectTexts, MaxElems),
                       forms : SeqsUpTo(FormTexts, MaxElems)] }

NoClassification == [work_type |-> "", confidence |-> FInt(0)]

ModsIdle ==
    /\ mods_in = None
    /\ mods_result = NoClassification
    /\ mods_pc = "idle"

(***************************************************************************)
(* WorkRepository: create_work and the content hash                        *)
(***************************************************************************)
\* [a-zA-Z0-9]
IsAsciiAlnum(ch) ==
    ch \in Range(UpperLetters) \cup Range(LowerLetters) \cup Range(Digits)

\* re.sub(r'[^a-zA-Z0-9\s]', '', s)
re_sub_non_alnum(s) == SelectSeq(s, LAMBDA ch : IsAsciiAlnum(ch) \/ IsSpace(ch))

\* re.sub(r'\s+', ' ', s).strip()
collapse_strip(s) == str_strip(collapse_spaces(s))

\* The alternatives of (the|a|an)
ArticleThe == <<"t", "h", "e">>
ArticleA == <<"a">>
ArticleAn == <<"a", "n">>

\* s starts with the word p followed by whitespace
starts_with_word(s, p) ==
    Len(s) > Len(p) /\ SubSeq(s, 1, Len(p)) = p /\ IsSpace(s[Len(p) + 1])

\* re.sub(r'^(the|a|an)\s+', '', s, flags=re.IGNORECASE): the article at the
\* very start of s goes with the whitespace after it.
re_sub_leading_article(s) ==
    LET t == str_lower(s)
        cut(p) == str_lstrip(SubSeq(s, Len(p) + 1, Len(s)))
    IN IF starts_with_word(t, ArticleThe) THEN cut(ArticleThe)
       ELSE IF starts_with_word(t, ArticleA) THEN cut(ArticleA)
       ELSE IF starts_with_word(t, ArticleAn) THEN cut(ArticleAn)
       ELSE s

\* normalize_title of generate_content_hash (lines 198-205)
normalize_title(title) ==
    IF title = None \/ Val(title) = <<>> THEN <<>>
    ELSE collapse_strip(re_sub_non_alnum(
             re_sub_leading_article(str_strip(str_lower(Val(title))))))

\* author.count(',')
str_count_comma(s) == Cardinality({ i \in DOMAIN s : s[i] = "," })

\* Lines 212-215: "Last, First" becomes "First Last".
last_first_swapped(author) ==
    IF str_count_comma(author) >= 1 /\ ~(str_count_comma(author) > 2)
    THEN LET k == FirstIndex(author, {","}) IN
         str_strip(SubSeq(author, k + 1, Len(author))) \o <<" ">>
             \o str_strip(SubSeq(author, 1, k - 1))
    ELSE author

\* normalize_author of generate_content_hash (lines 207-219)
normalize_author(author) ==
    IF author = None \/ Val(author) = <<>> THEN <<>>
    ELSE collapse_strip(re_sub_non_alnum(str_strip(str_lower(
             last_first_swapped(Val(author))))))

\* generate_content_hash(title, author, pub_year): the SHA-256 digest of
\* "title|author|year", taken to be free of collisions, is the content
\* itself; `pub_year or ''` makes the years None and 0 the same.
generate_content_hash(title, author, pub_year) ==
    <<normalize_title(title), normalize_author(author),
      IF Truthy(pub_year) THEN pub_year ELSE None>>

\* The database trigger that fills content_hash when a row is inserted: the
\* content key of the row's title, author and publication year.
trigger_content_hash(row) ==
    generate_content_hash(Some(row.title), row.author, row.publication_year)

\* f"{source_api}:{source_id}"
source_key_of(w) == <<w.source_api, w.source_id>>

\* WorkRepository.find_by_content_hash: response.data[0] of the rows whose
\* content_hash equals the argument, None when there is none.
find_by_content_hash(rows, content_hash) ==
    IF \E i \in DOMAIN rows : rows[i].content_hash = content_hash
    THEN Some(rows[CHOOSE i \in DOMAIN rows :
                     /\ rows[i].content_hash = content_hash
                     /\ \A j \in DOMAIN rows :
                            rows[j].content_hash = content_hash => i <= j])
    ELSE None

\* dict.get(key, default)
DictGet(d, key, default) == IF key \in DOMAIN d THEN d[key] ELSE default

\* {**a, **b}: the keys of both, the value of b where both have the key
DictMerge(a, b) ==
    [k \in DOMAIN a \cup DOMAIN b |-> IF k \in DOMAIN b THEN b[k] ELSE a[k]]

\* str.isdigit() and int() of a string of decimal digits
str_isdigit(s) == s # <<>> /\ \A k \in DOMAIN s : IsDigit(s[k])

RECURSIVE int_of_digits(_)
int_of_digits(s) ==
    IF s = <<>> THEN 0
    ELSE 10 * int_of_digits(SubSeq(s, 1, Len(s) - 1)) + DigitVal(s[Len(s)])

\* WorkCache.effective_public_domain_year (models.py, lines 49-58)
effective_public_domain_year(w) ==
    IF w.public_domain_year # None THEN w.public_domain_year
    ELSE IF w.public_domain_date # None /\ str_isdigit(Val(w.public_domain_date))
         THEN Some(int_of_digits(Val(w.public_domain_date)))
         ELSE None

\* The database fills source_key of an inserted row that came without one:
\* the key find_by_source_key looks rows up by, "source_api:source_id".
trigger_source_key(row) == Some(source_key_of(row))

\* The row inserted by create_work (lines 236-256), with the id, the source
\* key and the content hash the database gives it; public_domain_date is
\* not among the columns create_work writes.
inserted_row(rows, work) ==
    LET row == [id |-> Len(rows) + 1, source_key |-> None,
                title |-> work.title, author |-> work.author,
                publication_year |-> work.publication_year,
                work_type |-> work.work_type,
                copyright_status |-> work.copyright_status,
                public_domain_year |-> effective_public_domain_year(work),
                public_domain_date |-> None,
                source_api |-> work.source_api, source_id |-> work.source_id,
                processed_data |-> work.processed_data,
                confidence_score |-> work.confidence_score,
                content_hash |-> <<>>]
    IN [row EXCEPT !.content_hash = trigger_content_hash(row),
                   !.source_key = trigger_source_key(row)]

\* x or y of two Optional[str] / Optional[int] values
status_or(x, y) == IF x # None /\ Val(x) # "" THEN x ELSE y
year_or(x, y) == IF Truthy(x) THEN x ELSE y

\* The entry update_existing_work appends to alternate_sources (lines 286-290)
alternate_source(new_work) ==
    [source_api |-> new_work.source_api, source_id |-> new_work.source_id,
     confidence_score |-> new_work.confidence_score]

\* WorkRepository.update_existing_work (lines 267-306): the stored row keeps
\* its title, author, year and work_type; processed_data is the shallow
\* merge of the two dictionaries, the new source is appended to
\* alternate_sources when it differs, status and public-domain year are the
\* new ones unless those are falsy, and the confidence becomes the larger
\* of the two.
updated_row(current, new_work) ==
    LET merged == DictMerge(current.processed_data, new_work.processed_data)
        merged_processed_data ==
            IF source_key_of(current) # source_key_of(new_work)
            THEN DictSet(merged, "alternate_sources",
                         Append(DictGet(merged, "alternate_sources", <<>>),
                                alternate_source(new_work)))
            ELSE merged
    IN [current EXCEPT
          !.copyright_status = status_or(new_work.copyright_status, @),
          !.public_domain_year =
              year_or(effective_public_domain_year(new_work),
                      effective_public_domain_year(current)),
          !.processed_data = merged_processed_data,
          !.confidence_score = FMax(@, new_work.confidence_score)]

\* WorkRepository.create_work(work): the table after the call.
create_work(rows, work) ==
    LET content_hash == generate_content_hash(Some(work.title), work.author,
                                              work.publication_year)
        existing == find_by_content_hash(rows, content_hash)
    IN IF existing # None
       THEN [rows EXCEPT ![Val(existing).id] = updated_row(@, work)]
       ELSE Append(rows, inserted_row(rows, work))

(***************************************************************************)
(* Bounds of the repository's inputs                                       *)
(***************************************************************************)
MaxCreates == 2

WorkTitles ==
    {<<"T", "h", "e", " ", "R", "a", "v", "e", "n">>,
     <<"t", "h", "e", " ", "r", "a", "v", "e", "n">>,
     <<"R", "a", "v", "e", "n", "!">>,
     <<"'", "T", "h", "e", " ", "R", "a", "v", "e", "n", "'">>,
     <<"A", " ", "R", "a", "v", "e", "n">>,
     <<"E", "m", "m", "a">>}

WorkAuthors ==
    {None, Some(<<"P", "o", "e", ",", " ", "E", "d", "g", "a", "r">>),
     Some(<<"E", "d", "g", "a", "r", " ", "P", "o", "e">>),
     Some(<<"e", "d", "g", "a", "r", " ", "p", "o", "e", ".">>)}

WorkYears == {None, Some(1845)}

WorkSources == {"loc", "hathitrust"}

\* The WorkCache objects handed to create_work (title is a required str).
WorkCaches ==
    { [title |-> t, author |-> a, publication_year |-> y, source_api |-> src,
       source_id |-> "1", work_type |-> "literary",
       copyright_status |-> Some("Public Domain"),
       public_domain_year |-> None, public_domain_date |-> None,
       processed_data |-> EmptyDict,
       confidence_score |-> IF src = "loc" THEN Frac(4, 5) ELSE Frac(1, 2)] :
          t \in WorkTitles, a \in WorkAuthors, y \in WorkYears, src \in WorkSources }

NoCreate == [made |-> FALSE, hash |-> <<>>, found |-> FALSE]

RepoIdle ==
    /\ repo_rows = <<>>
    /\ repo_last = NoCreate
    /\ repo_n = 0

(***************************************************************************)
(* CacheManager: find_existing_work and _calculate_work_similarity         *)
(***************************************************************************)
\* CacheManager._normalize_text(text)
normalize_text(text) ==
    IF text = None \/ Val(text) = <<>> THEN <<>>
    ELSE collapse_strip(re_sub_punct(str_lower(Val(text))))

\* The title part of the score (lines 122-134), before it is weighted: an
\* exact match, a containment, the word overlap len(words1 & words2) /
\* len(words1 | words2) in lowest terms, or nothing when a title is empty.
title_similarity(title1_norm, title2_norm) ==
    IF title1_norm = <<>> \/ title2_norm = <<>> THEN <<"none", 0, 1>>
    ELSE IF title1_norm = title2_norm THEN <<"exact", 1, 1>>
    ELSE IF str_in(title1_norm, title2_norm) \/ str_in(title2_norm, title1_norm)
    THEN <<"contain", 1, 1>>
    ELSE LET words1 == Range(str_split(title1_norm))
             words2 == Range(str_split(title2_norm))
             overlap == Reduced(Cardinality(words1 \cap words2),
                                Cardinality(words1 \cup words2))
         IN <<"overlap", overlap.n, overlap.d>>

\* Hundredths the title part adds: 0.6, 0.4 or 0.6 * overlap.
title_points(sim) ==
    IF sim[1] = "exact" THEN Frac(60, 1)
    ELSE IF sim[1] = "contain" THEN Frac(40, 1)
    ELSE IF sim[1] = "overlap" THEN Reduced(60 * sim[2], sim[3])
    ELSE Frac(0, 1)

\* Hundredths the author part adds (lines 137-146).
author_points(author1_norm, author2_norm) ==
    IF author1_norm # <<>> /\ author2_norm # <<>>
    THEN IF author1_norm = author2_norm THEN 30
         ELSE IF str_in(author1_norm, author2_norm) \/ str_in(author2_norm, author1_norm)
         THEN 20 ELSE 0
    ELSE IF author1_norm = <<>> /\ author2_norm = <<>> THEN 15
    ELSE 0

\* Hundredths the publication year part adds (lines 149-155).
year_points(year1, year2) ==
    IF Truthy(year1) /\ Truthy(year2)
    THEN IF Val(year1) = Val(year2) THEN 10
         ELSE IF Val(year1) - Val(year2) <= 2 /\ Val(year2) - Val(year1) <= 2 THEN 5
         ELSE 0
    ELSE IF ~Truthy(year1) /\ ~Truthy(year2) THEN 5
    ELSE 0

\* The score is a double: 0.0 + title + author + year, added in that order.
\* A double is written as the decimal value the parts add up to, n / d, and
\* the number of doubles by which the computed sum lies above the double
\* nearest to that value.  The two tables list the sums that IEEE-754
\* addition rounds one double up and one double down.
RoundedUp ==
    {<<"exact", 1, 1, 20, 5>>, <<"contain", 1, 1, 20, 10>>,
     <<"contain", 1, 1, 20, 5>>, <<"contain", 1, 1, 20, 0>>,
     <<"contain", 1, 1, 15, 5>>, <<"none", 0, 1, 20, 10>>,
     <<"overlap", 0, 1, 20, 10>>, <<"overlap", 1, 5, 20, 10>>,
     <<"overlap", 2, 5, 30, 5>>, <<"overlap", 3, 5, 20, 5>>,
     <<"overlap", 4, 5, 30, 5>>, <<"overlap", 5, 6, 30, 5>>,
     <<"overlap", 5, 6, 15, 5>>}

RoundedDown ==
    {<<"exact", 1, 1, 30, 10>>, <<"exact", 1, 1, 30, 0>>,
     <<"contain", 1, 1, 30, 10>>, <<"overlap", 1, 2, 15, 10>>,
     <<"overlap", 1, 2, 15, 5>>, <<"overlap", 1, 2, 15, 0>>,
     <<"overlap", 1, 3, 15, 10>>, <<"overlap", 1, 3, 15, 5>>,
     <<"overlap", 1, 3, 0, 0>>, <<"overlap", 2, 3, 30, 10>>,
     <<"overlap", 2, 3, 15, 10>>, <<"overlap", 2, 3, 15, 0>>,
     <<"overlap", 2, 3, 0, 5>>, <<"overlap", 2, 3, 0, 0>>,
     <<"overlap", 1, 4, 30, 10>>, <<"overlap", 1, 4, 30, 5>>,
     <<"overlap", 1, 4, 30, 0>>, <<"overlap", 1, 4, 20, 10>>,
     <<"overlap", 1, 4, 20, 5>>, <<"overlap", 3, 4, 20, 10>>,
     <<"overlap", 3, 4, 20, 0>>, <<"overlap", 3, 4, 0, 10>>,
     <<"overlap", 3, 4, 0, 5>>, <<"overlap", 3, 4, 0, 0>>,
     <<"overlap", 1, 5, 0, 5>>, <<"overlap", 2, 5, 0, 10>>,
     <<"overlap", 3, 5, 30, 10>>, <<"overlap", 3, 5, 30, 0>>,
     <<"overlap", 3, 5, 0, 10>>, <<"overlap", 4, 5, 20, 10>>,
     <<"overlap", 4, 5, 20, 0>>, <<"overlap", 1, 6, 30, 5>>,
     <<"overlap", 1, 6, 30, 0>>, <<"overlap", 1, 6, 0, 0>>,
     <<"overlap", 5, 6, 20, 10>>}

rounding_of(sim, a, y) ==
    LET key == <<sim[1], sim[2], sim[3], a, y>> IN
    IF key \in RoundedUp THEN 1 ELSE IF key \in RoundedDown THEN 0 - 1 ELSE 0

Double(n, d, ulps) == [n |-> n, d |-> d, ulps |-> ulps]

\* x > y on doubles
DoubleGt(x, y) ==
    \/ x.n * y.d > y.n * x.d
    \/ x.n * y.d = y.n * x.d /\ x.ulps > y.ulps

\* x >= y on doubles
DoubleGe(x, y) == ~DoubleGt(y, x)

\* The literal 0.7 of line 92
SimilarityThreshold == Double(7, 10, 0)

\* CacheManager._calculate_work_similarity(title1, author1, year1, title2,
\* author2, year2): min(score, 1.0); no sum of the three parts exceeds 1.0.
calculate_work_similarity(title1, author1, year1, title2, author2, year2) ==
    LET sim == title_similarity(normalize_text(title1), normalize_text(title2))
        a == author_points(normalize_text(author1), normalize_text(author2))
        y == year_points(year1, year2)
        hundredths == FAdd(title_points(sim), Frac(a + y, 1))
        score == Reduced(hundredths.n, hundredths.d * 100)
    IN Double(score.n, score.d, rounding_of(sim, a, y))

\* column ILIKE '%pattern%': a NULL column matches nothing.
ilike(column, pattern) ==
    column # None /\ str_in(str_lower(pattern), str_lower(Val(column)))

\* Lines 66-76: the rows the query returns, in the order the table gives.
similar_candidates(rows, work_title, work_author) ==
    LET normalized_title == normalize_text(work_title)
        normalized_author == normalize_text(work_author)
    IN SelectSeq(rows, LAMBDA row :
          /\ normalized_title # <<>> => ilike(Some(row.title), normalized_title)
          /\ normalized_author # <<>> => ilike(row.author, normalized_author))

\* The loop of lines 82-94: the candidate with the highest score above 0.7,
\* the first of them in the response when several share it.
RECURSIVE best_match(_, _, _, _, _, _)
best_match(candidates, work_title, work_author, pub_year, best, best_score) ==
    IF candidates = <<>> THEN best
    ELSE LET existing_work == Head(candidates)
             score == calculate_work_similarity(work_title, work_author, pub_year,
                          Some(existing_work.title), existing_work.author,
                          existing_work.publication_year)
         IN IF DoubleGt(score, best_score) /\ DoubleGt(score, SimilarityThreshold)
            THEN best_match(Tail(candidates), work_title, work_author, pub_year,
                            Some(existing_work), score)
            ELSE best_match(Tail(candidates), work_title, work_author, pub_year,
                            best, best_score)

\* CacheManager.find_existing_work(work_title, work_author, publication_year)
\* over the rows of work_cache.
find_existing_work(rows, work_title, work_author, pub_year) ==
    best_match(similar_candidates(rows, work_title, work_author),
               work_title, work_author, pub_year, None, Double(0, 1, 0))

(***************************************************************************)
(* Bounds of the cache's inputs                                            *)
(***************************************************************************)
MaxPool == 2

CacheTitles ==
    {<<"T", "h", "e", " ", "R", "a", "v", "e", "n">>,
     <<"r", "a", "v", "e", "n">>,
     <<"R", "a", "v", "e", "n", " ", "P", "o", "e", "m", "s">>,
     <<"T", "h", "e", " ", "B", "e", "l", "l", "s">>}

CacheAuthors ==
    {None, Some(<<"P", "o", "e">>),
     Some(<<"E", "d", "g", "a", "r", " ", "P", "o", "e">>)}

CacheYears == {None, Some(1845), Some(1847), Some(1850)}

\* The rows of work_cache, each with its id.
CacheRow(id, title, author, year) ==
    [id |-> id, title |-> title, author |-> author, publication_year |-> year]

StoredWorks ==
    {CacheRow(1, <<"T", "h", "e", " ", "R", "a", "v", "e", "n">>, Some(<<"P", "o", "e">>), Some(1845)),
     CacheRow(2, <<"T", "h", "e", " ", "R", "a", "v", "e", "n", "!">>, None, Some(1845)),
     CacheRow(3, <<"T", "h", "e", " ", "R", "a", "v", "e", "n">>, Some(<<"E", "d", "g", "a", "r", " ", "P", "o", "e">>), None),
     CacheRow(4, <<"P", "o", "e", "m", "s", " ", "R", "a", "v", "e", "n">>, Some(<<"P", "o", "e">>), Some(1850)),
     CacheRow(5, <<"T", "h", "e", " ", "R", "a", "v", "e", "n", " ", "a", "n", "d", " ", "P", "o", "e", "m", "s">>, Some(<<"P", "o", "e">>), Some(1845))}

\* The table in the order its rows come back: no row twice.
WorkCacheTables ==
    { rows \in SeqsUpTo(StoredWorks, MaxPool) :
        \A i, j \in DOMAIN rows : i # j => rows[i].id # rows[j].id }

NewWorks == [title : CacheTitles, author : CacheAuthors, publication_year : CacheYears]

CacheIdle ==
    /\ cache_rows = <<>>
    /\ cache_work = [title |-> <<>>, author |-> None, publication_year |-> None]
    /\ cache_found = None
    /\ cache_pc = "idle"

(***************************************************************************)
(* CacheManager.cache_work: the other writer of the work_cache table       *)
(***************************************************************************)
\* response.data[0] of select("*").eq("source_key", work_key) (line 166)
RECURSIVE find_by_source_key(_, _)
find_by_source_key(rows, work_key) ==
    IF rows = <<>> THEN None
    ELSE IF Head(rows).source_key = Some(work_key) THEN Some(Head(rows))
         ELSE find_by_source_key(Tail(rows), work_key)

\* Lines 173-187: the row of the same source after its refresh. Every
\* column of the update is the new work's, processed_data included.
refreshed_row(existing_work, work) ==
    [existing_work EXCEPT
        !.title = work.title, !.author = work.author,
        !.publication_year = work.publication_year,
        !.work_type = work.work_type,
        !.copyright_status = work.copyright_status,
        !.public_domain_date = work.public_domain_date,
        !.processed_data = work.processed_data]

\* The entry cache_work appends to additional_sources (line 208)
additional_source(source_api, source_id) ==
    [source_api |-> source_api, source_id |-> source_id,
     source_key |-> <<source_api, source_id>>]

\* Lines 198-200: {**existing_sources, **new_sources}
merged_sources(similar_work, work) ==
    DictMerge(DictGet(similar_work.processed_data, "source_links", EmptyDict),
              DictGet(work.processed_data, "source_links", EmptyDict))

\* Lines 203-221: the similar row after the new work is merged into it.
\* The update writes work_type, copyright_status, public_domain_date and
\* processed_data; confidence_score and public_domain_year are not among
\* its columns.
merged_row(similar_work, work, source_api, source_id) ==
    LET merged_processed_data ==
            DictSet(DictSet(DictMerge(similar_work.processed_data, work.processed_data),
                            "source_links", merged_sources(similar_work, work)),
                    "additional_sources",
                    Append(DictGet(similar_work.processed_data, "additional_sources", <<>>),
                           additional_source(source_api, source_id)))
    IN [similar_work EXCEPT
          !.work_type = work.work_type,
          !.copyright_status = work.copyright_status,
          !.public_domain_date = work.public_domain_date,
          !.processed_data = merged_processed_data]

\* WorkCache.confidence_score's default (models.py, line 36), the value a
\* row read back has when the insert did not give the column.
default_confidence_score == Frac(4, 5)

\* Lines 227-244: the row cache_work inserts, with the id and the content
\* hash the database gives it; confidence_score and public_domain_year are
\* not among the columns of the insert.
cached_row(rows, work, source_api, source_id) ==
    LET row == [id |-> Len(rows) + 1, source_key |-> Some(<<source_api, source_id>>),
                title |-> work.title, author |-> work.author,
                publication_year |-> work.publication_year,
                work_type |-> work.work_type,
                copyright_status |-> work.copyright_status,
                public_domain_year |-> None,
                public_domain_date |-> work.public_domain_date,
                source_api |-> source_api, source_id |-> source_id,
                processed_data |-> work.processed_data,
                confidence_score |-> default_confidence_score,
                content_hash |-> <<>>]
    IN [row EXCEPT !.content_hash = trigger_content_hash(row)]

\* Which of its three branches cache_work takes, and on which row.
cache_work_branch(rows, work, source_api, source_id) ==
    LET existing == find_by_source_key(rows, <<source_api, source_id>>)
        similar_work == find_existing_work(rows, Some(work.title), work.author,
                                           work.publication_year)
    IN IF existing # None THEN [path |-> "refresh", id |-> Val(existing).id]
       ELSE IF similar_work # None THEN [path |-> "merge", id |-> Val(similar_work).id]
       ELSE [path |-> "insert", id |-> Len(rows) + 1]

\* CacheManager.cache_work(work, source_api, source_id): the table after
\* the call (lines 158-245).
CacheManager_cache_work(rows, work, source_api, source_id) ==
    LET branch == cache_work_branch(rows, work, source_api, source_id)
    IN IF branch.path = "refresh"
       THEN [rows EXCEPT ![branch.id] = refreshed_row(@, work)]
       ELSE IF branch.path = "merge"
       THEN [rows EXCEPT ![branch.id] = merged_row(@, work, source_api, source_id)]
       ELSE Append(rows, cached_row(rows, work, source_api, source_id))

\* Which branch create_work takes, and on which row (lines 225-231).
create_work_branch(rows, work) ==
    LET existing == find_by_content_hash(rows,
                        generate_content_hash(Some(work.title), work.author,
                                              work.publication_year))
    IN IF existing # None THEN [path |-> "update", id |-> Val(existing).id]
       ELSE [path |-> "insert", id |-> Len(rows) + 1]

(***************************************************************************)
(* Bounds of the store's inputs                                            *)
(***************************************************************************)
MaxStoreOps == 3

s_raven == <<"T", "h", "e", " ", "R", "a", "v", "e", "n">>
s_poe == <<"P", "o", "e">>

\* processed_data as the callers build it: the analysis' confidence and
\* the source links by source name.
ProcessedData(confidence, links) ==
    DictSet(DictSet(EmptyDict, "confidence_score", confidence), "source_links", links)

Links1(name, url) == DictSet(EmptyDict, name, url)
Links2(name, url, url2) == DictSet(Links1(name, url), "primary_source", url2)

StoreWork(title, author, year, api, id, wt, status, pd_year, pd_date, confidence, links) ==
    [title |-> title, author |-> author, publication_year |-> year,
     source_api |-> api, source_id |-> id, work_type |-> wt,
     copyright_status |-> status, public_domain_year |-> pd_year,
     public_domain_date |-> pd_date,
     processed_data |-> ProcessedData(confidence, links),
     confidence_score |-> confidence]

\* Analyses of one work from two sources, in the shape main.py hands to
\* cache_work (legacy public_domain_date, default confidence) and in the
\* shape search_works hands to create_work, a refresh of the first with
\* another link, and an unrelated work.
StoreWorks ==
    {StoreWork(s_raven, Some(s_poe), Some(1845), "library_of_congress", "the raven:poe",
               "literary", Some("Public Domain"), None, Some(<<"1", "9", "4", "1">>),
               Frac(4, 5), Links2("library_of_congress", "loc/raven", "loc/raven")),
     StoreWork(s_raven, Some(s_poe), Some(1845), "musicbrainz", "the raven:poe",
               "musical", Some("Under Copyright"), None, Some(<<"2", "0", "4", "0">>),
               Frac(4, 5), Links2("musicbrainz", "mb/raven", "mb/raven")),
     StoreWork(s_raven, Some(s_poe), Some(1845), "loc", "The_Raven_Poe",
               "literary", Some("Unknown"), None, None,
               Frac(1, 2), Links1("primary_source", "loc/raven")),
     StoreWork(s_raven, Some(s_poe), Some(1845), "musicbrainz", "The_Raven_Poe",
               "musical", Some("Under Copyright"), Some(2040), None,
               Frac(9, 10), Links1("primary_source", "mb/raven")),
     StoreWork(s_raven, Some(s_poe), Some(1845), "library_of_congress", "the raven:poe",
               "literary", None, None, None,
               Frac(3, 5), Links1("library_of_congress", "loc/raven-2")),
     StoreWork(<<"E", "m", "m", "a">>, None, None, "loc", "Emma_Unknown",
               "literary", Some("Public Domain"), Some(1911), None,
               Frac(7, 10), Links1("primary_source", "loc/emma"))}

NoStoreOp == [op |-> "none", path |-> "none", id |-> 0, work |-> None]

StoreIdle ==
    /\ store_rows = <<>>
    /\ store_prev = <<>>
    /\ store_merged = <<>>
    /\ store_last = NoStoreOp
    /\ store_n = 0

(***************************************************************************)
(* The source clients' rate limiters: BaseAPIClient.__init__ and           *)
(* _async_rate_limit of LibraryOfCongressClient and MusicBrainzClient.     *)
(* Time is counted in tenths of a second.                                  *)
(***************************************************************************)
\* The clients of the global ExternalAPIService (external_api_service.py,
\* lines 23-25)
SourceClients == {"loc_client", "musicbrainz_client"}

\* rate_limit_delay: 1.0 s for the Library of Congress, 1.1 s for MusicBrainz
LocRateLimitDelay == 10
MusicBrainzRateLimitDelay == 11

rate_limit_delay(client) ==
    IF client = "loc_client" THEN LocRateLimitDelay ELSE MusicBrainzRateLimitDelay

\* elapsed = time.time() - self.last_request_time
elapsed_since(last_request_time, now) == now - last_request_time

\* await asyncio.sleep(self.rate_limit_delay - elapsed): the instant the
\* sleep is over
wake_time(client, last_request_time, now) ==
    now + (rate_limit_delay(client) - elapsed_since(last_request_time, now))

(***************************************************************************)
(* Bounds of the rate limiters' runs                                       *)
(***************************************************************************)
MaxCallers == 3
MaxTime == 13

Callers == 1 .. MaxCallers

\* time.time() when the first call arrives: long after the epoch the
\* initial last_request_time = 0 stands for.
FirstCallTime == Max(LocRateLimitDelay, MusicBrainzRateLimitDelay)

LimIdle ==
    /\ lim_now = FirstCallTime
    /\ lim_last = [client \in SourceClients |-> 0]
    /\ lim_pc = [c \in Callers |-> "ready"]
    /\ lim_client = [c \in Callers |-> "loc_client"]
    /\ lim_called = [c \in Callers |-> 0]
    /\ lim_wake = [c \in Callers |-> 0]
    /\ lim_start = [c \in Callers |-> 0]

(***************************************************************************)
(* The shared HTTP session of the global ExternalAPIService                *)
(* (external_api_service.py, lines 26-58 and 255-256), as the search route *)
(* uses it: `async with external_api_service:` around search_all_sources.  *)
(***************************************************************************)
\* `not self.session or self.session.closed` of start_session (line 37)
needs_session(session, closed) == session = None \/ Val(session) \in closed

\* ExternalAPIService.start_session: the session after the call; a new
\* ClientSession, numbered `fresh`, replaces a missing or closed one.
start_session(session, closed, fresh) ==
    IF needs_session(session, closed) THEN Some(fresh) ELSE session

\* ExternalAPIService.close_session: the set of closed sessions after the
\* call; whatever session the service holds at that moment is closed.
close_session(session, closed) ==
    IF session # None /\ Val(session) \notin closed
    THEN closed \cup {Val(session)} ELSE closed

\* LibraryOfCongressClient.get_session(external_session) (lines 42-54): the
\* session handed over when it is still open, else the client's own.
get_session(external_session, closed) ==
    IF external_session # None /\ Val(external_session) \notin closed
    THEN "shared" ELSE "own"

(***************************************************************************)
(* Bounds of the shared session's runs                                     *)
(***************************************************************************)
MaxRequests == 2
MaxSessions == 3

Requests == 1 .. MaxRequests

SessIdle ==
    /\ sess_session = None
    /\ sess_closed = {}
    /\ sess_made = 0
    /\ sess_pc = [r \in Requests |-> "idle"]
    /\ sess_given = [r \in Requests |-> None]
    /\ sess_http = [r \in Requests |-> "none"]
    /\ sess_failed = [r \in Requests |-> FALSE]

(***************************************************************************)
(* Bounds of the orchestrator's inputs                                     *)
(***************************************************************************)
\* Longest batch handed to analyze_batch.
MaxBatch == 2

t_emma == <<"e", "m", "m", "a">>
t_ulysses == <<"u", "l", "y", "s", "s", "e", "s">>
a_austen == <<"j", "a", "n", "e", " ", "a", "u", "s", "t", "e", "n">>
a_joyce == <<"j", "o", "y", "c", "e">>

BatchWorks == { <<t_emma, a_austen>>, <<t_ulysses, a_joyce>>, <<t_emma, <<>> >> }

Batches == SeqsUpTo(BatchWorks, MaxBatch)

SearchWorkTypes == {"auto", "literary", "musical"}

(***************************************************************************)
(* The orchestrator as a state machine: a CopyrightAnalyzer is constructed *)
(* and then serves analyze_work and analyze_batch calls.                   *)
(***************************************************************************)
NoCall == [op |-> "none", country |-> None, works |-> <<>>]

AnalyzerIdle ==
    /\ an_self = NoAnalyzer
    /\ an_call = NoCall
    /\ an_result = [kind |-> "none"]

\* analyzer = CopyrightAnalyzer(country)
Construct ==
    \E c \in CountryCodes :
        LET a == CopyrightAnalyzer_init(c) IN
        /\ an_call' = [op |-> "init", country |-> Some(c), works |-> <<>>]
        /\ an_self' = IF a.built THEN a ELSE an_self
        /\ an_result' = IF a.built THEN Returned(a, None) ELSE Raised(a.error, None)

\* await analyzer.analyze_work(title, author, work_type, country=country)
AnalyzeWork ==
    /\ an_self.built
    /\ \E w \in BatchWorks, wt \in SearchWorkTypes, c \in CountryOverrides :
        /\ an_call' = [op |-> "analyze_work", country |-> c, works |-> <<w>>]
        /\ an_result' = CopyrightAnalyzer_analyze_work(an_self, w[1], w[2], wt, c)
    /\ UNCHANGED an_self

\* analyzer.analyze_batch(works, country=country)
AnalyzeBatch ==
    /\ an_self.built
    /\ \E ws \in Batches, c \in CountryOverrides :
        /\ an_call' = [op |-> "analyze_batch", country |-> c, works |-> ws]
        /\ an_result' = CopyrightAnalyzer_analyze_batch(an_self, ws, c)
    /\ UNCHANGED an_self

CalcIdle ==
    /\ current_year = BaseYear
    /\ publication_year = None
    /\ author_death_year = None
    /\ work_type = "individual"
    /\ country_arg = "US"
    /\ verdict = NoVerdict
    /\ calc_pc = "ready"

\* Every component but one at rest.
IdleButCalc == AnalyzerIdle /\ RelIdle /\ RecIdle /\ SvcIdle /\ ModsIdle /\ RepoIdle /\ CacheIdle /\ StoreIdle /\ LimIdle /\ SessIdle
IdleButAnalyzer == CalcIdle /\ RelIdle /\ RecIdle /\ SvcIdle /\ ModsIdle /\ RepoIdle /\ CacheIdle /\ StoreIdle /\ LimIdle /\ SessIdle
IdleButRel == CalcIdle /\ AnalyzerIdle /\ RecIdle /\ SvcIdle /\ ModsIdle /\ RepoIdle /\ CacheIdle /\ StoreIdle /\ LimIdle /\ SessIdle
IdleButRec == CalcIdle /\ AnalyzerIdle /\ RelIdle /\ SvcIdle /\ ModsIdle /\ RepoIdle /\ CacheIdle /\ StoreIdle /\ LimIdle /\ SessIdle
IdleButSvc == CalcIdle /\ AnalyzerIdle /\ RelIdle /\ RecIdle /\ ModsIdle /\ RepoIdle /\ CacheIdle /\ StoreIdle /\ LimIdle /\ SessIdle
IdleButMods == CalcIdle /\ AnalyzerIdle /\ RelIdle /\ RecIdle /\ SvcIdle /\ RepoIdle /\ CacheIdle /\ StoreIdle /\ LimIdle /\ SessIdle
IdleButRepo == CalcIdle /\ AnalyzerIdle /\ RelIdle /\ RecIdle /\ SvcIdle /\ ModsIdle /\ CacheIdle /\ StoreIdle /\ LimIdle /\ SessIdle
IdleButCache == CalcIdle /\ AnalyzerIdle /\ RelIdle /\ RecIdle /\ SvcIdle /\ ModsIdle /\ RepoIdle /\ StoreIdle /\ LimIdle /\ SessIdle
IdleButStore == CalcIdle /\ AnalyzerIdle /\ RelIdle /\ RecIdle /\ SvcIdle /\ ModsIdle /\ RepoIdle /\ CacheIdle /\ LimIdle /\ SessIdle
IdleButLim == CalcIdle /\ AnalyzerIdle /\ RelIdle /\ RecIdle /\ SvcIdle /\ ModsIdle /\ RepoIdle /\ CacheIdle /\ StoreIdle /\ SessIdle
IdleButSess == CalcIdle /\ AnalyzerIdle /\ RelIdle /\ RecIdle /\ SvcIdle /\ ModsIdle /\ RepoIdle /\ CacheIdle /\ StoreIdle /\ LimIdle

InitAnalyzer == AnalyzerIdle /\ IdleButAnalyzer

NextAnalyzer ==
    \/ Construct /\ UNCHANGED notAnVars
    \/ AnalyzeWork /\ UNCHANGED notAnVars
    \/ AnalyzeBatch /\ UNCHANGED notAnVars

SpecAnalyzer == InitAnalyzer /\ [][NextAnalyzer]_vars

(***************************************************************************)
(* The calculator as a state machine: a calculator is constructed in some  *)
(* year, then calculate_copyright_status is called once on some arguments. *)
(***************************************************************************)
InitCalc ==
    /\ IdleButCalc
    /\ current_year \in CurrentYears
    /\ publication_year \in PubYears
    /\ author_death_year \in DeathYears
    /\ work_type \in WorkTypes
    /\ country_arg \in CountryArgs
    /\ verdict = NoVerdict
    /\ calc_pc = "ready"

Calculate ==
    /\ calc_pc = "ready"
    /\ verdict' = calculate_copyright_status(current_year, publication_year,
                                             author_death_year, work_type, country_arg)
    /\ calc_pc' = "done"
    /\ UNCHANGED <<current_year, publication_year, author_death_year, work_type,
                   country_arg>>
    /\ UNCHANGED notCalcVars

NextCalc == Calculate

SpecCalc == InitCalc /\ [][NextCalc]_vars

(***************************************************************************)
(* The relevance filter as a state machine: a search fixes the target      *)
(* title and author and the parsed candidates; the filter then scores and  *)
(* ranks them.                                                             *)
(***************************************************************************)
InitRel ==
    /\ IdleButRel
    /\ \E t \in Targets : rel_title = t[1] /\ rel_author = t[2]
    /\ rel_matches \in MatchLists
    /\ rel_scores = <<>>
    /\ rel_result = [kind |-> "none"]
    /\ rel_pc = "ready"

\* _filter_relevant_matches(matches, target_title, target_author).  A
\* candidate whose title element held no text has title None, and
\* None.lower() raises out of the scoring loop.
FilterRelevantMatches ==
    /\ rel_pc = "ready"
    /\ IF \E i \in DOMAIN rel_matches : rel_matches[i].title = None
       THEN /\ rel_scores' = <<>>
            /\ rel_result' =
                   Raised("AttributeError: 'NoneType' object has no attribute 'lower'", None)
       ELSE /\ rel_scores' = scores_of(rel_matches, rel_title, rel_author)
            /\ rel_result' = Returned(rank_matches(rel_matches, rel_scores'), None)
    /\ rel_pc' = "done"
    /\ UNCHANGED <<rel_title, rel_author, rel_matches>>
    /\ UNCHANGED notRelVars

NextRel == FilterRelevantMatches

SpecRel == InitRel /\ [][NextRel]_vars


(***************************************************************************)
(* The reconciler as a state machine: merge_api_responses, then            *)
(* create_work_record with the copyright analysis of USAnalyzer.analyze_work*)
(* (lines 124-135), possibly run again on the same responses while the     *)
(* clock moves on.                                                         *)
(***************************************************************************)
InitRec ==
    /\ IdleButRec
    /\ rec_records = <<>>
    /\ rec_clock = 0
    /\ \/ /\ rec_in \in RecInputs
          /\ rec_merged = [kind |-> "none"]
          /\ rec_pc = "ready"
       \/ /\ rec_in = [kind |-> "direct"]
          /\ rec_merged \in DirectMetadata
          /\ rec_pc = "merged"

MergeApiResponses ==
    /\ rec_pc = "ready"
    /\ rec_in.kind = "query"
    /\ Len(rec_records) < MaxRuns
    /\ \E m1 \in { merge_loc(merged_start(rec_in.search_title, rec_in.search_author),
                             rec_in.loc) } :
       \E m2 \in { merge_hathi(m1, rec_in.hathi) } :
       \E m3 \in { merge_musicbrainz(m2, rec_in.musicbrainz) } :
       \E m4 \in { merge_artist(m3, rec_in.artist) } :
           rec_merged' = merge_finish(m4)
    /\ rec_pc' = "merged"
    /\ UNCHANGED <<rec_in, rec_records, rec_clock>>
    /\ UNCHANGED notRecVars

CreateWorkRecord ==
    /\ rec_pc = "merged"
    /\ \E copyright_analysis \in
           { calculate_copyright_status(current_year, rec_merged.publication_year,
                                        rec_merged.author_death_year,
                                        calculator_work_type(rec_merged),
                                        rec_merged.country) } :
           rec_records' = Append(rec_records,
                                 create_work_record(rec_merged.search_title,
                                                    rec_merged.search_author,
                                                    rec_merged, copyright_analysis,
                                                    rec_clock))
    /\ rec_pc' = "ready"
    /\ UNCHANGED <<rec_in, rec_merged, rec_clock>>
    /\ UNCHANGED notRecVars

\* Time passes.
Tick ==
    /\ rec_clock < MaxClock
    /\ rec_clock' = rec_clock + 1
    /\ UNCHANGED <<rec_in, rec_merged, rec_records, rec_pc>>
    /\ UNCHANGED notRecVars

NextRec == MergeApiResponses \/ CreateWorkRecord \/ Tick

SpecRec == InitRec /\ [][NextRec]_vars

(***************************************************************************)
(* The search service as a state machine: a query and the behaviour of the *)
(* two sources are fixed, then either search_all_sources or the US         *)
(* analyzer's analyze_work serves the query.                               *)
(***************************************************************************)
InitSvc ==
    /\ IdleButSvc
    /\ svc_in \in ServiceInputs
    /\ svc_result = NoOutcome
    /\ svc_pc = "ready"

\* await external_api_service.search_all_sources(title, author, work_type, limit)
SearchAllSources ==
    /\ svc_pc = "ready"
    /\ \E tasks \in { search_tasks(svc_in.title, svc_in.author, svc_in.work_type) } :
       \E loc_result \in { search_library_of_congress(svc_in.title, svc_in.author,
                                                      svc_in.limit, svc_in.loc_client) } :
       \E mb_result \in { search_musicbrainz(svc_in.title, svc_in.author, svc_in.limit,
                                             svc_in.mb_works, svc_in.mb_artists) } :
       \E results \in { gather(tasks, loc_result, mb_result) } :
          svc_result' = [op |-> "search_all_sources", outcome |-> combine_results(results)]
    /\ svc_pc' = "done"
    /\ UNCHANGED svc_in
    /\ UNCHANGED notSvcVars

\* USAnalyzer().analyze_work(title, author, work_type) on the same query
USAnalyzeWork ==
    /\ svc_pc = "ready"
    /\ svc_in.title # None /\ svc_in.author # None
    /\ \E wt \in {"auto", "musical", "literary"} :
          svc_result' = [op |-> "analyze_work",
                         outcome |-> USAnalyzer_analyze_work(Val(svc_in.title),
                                                             Val(svc_in.author), wt)]
    /\ svc_pc' = "done"
    /\ UNCHANGED svc_in
    /\ UNCHANGED notSvcVars

NextSvc == SearchAllSources \/ USAnalyzeWork

SpecSvc == InitSvc /\ [][NextSvc]_vars

(***************************************************************************)
(* The classifier as a state machine: a MODS element is parsed, then       *)
(* _extract_work_type_from_mods is called on it once.                      *)
(***************************************************************************)
InitMods ==
    /\ IdleButMods
    /\ mods_in \in ModsElements
    /\ mods_result = NoClassification
    /\ mods_pc = "ready"

\* work_type, confidence = self._extract_work_type_from_mods(mods_elem)
ExtractWorkType ==
    /\ mods_pc = "ready"
    /\ mods_result' = extract_work_type_from_mods(mods_in)
    /\ mods_pc' = "done"
    /\ UNCHANGED mods_in
    /\ UNCHANGED notModsVars

NextMods == ExtractWorkType

SpecMods == InitMods /\ [][NextMods]_vars

(***************************************************************************)
(* The repository as a state machine: the table starts empty and           *)
(* create_work is called on one work after another.                        *)
(***************************************************************************)
InitRepo == IdleButRepo /\ RepoIdle

\* await work_repository.create_work(work)
CreateWork ==
    /\ repo_n < MaxCreates
    /\ \E work \in WorkCaches :
       \E content_hash \in { generate_content_hash(Some(work.title), work.author,
                                                   work.publication_year) } :
          /\ repo_rows' = create_work(repo_rows, work)
          /\ repo_last' = [made |-> TRUE, hash |-> content_hash,
                           found |-> find_by_content_hash(repo_rows, content_hash) # None]
    /\ repo_n' = repo_n + 1
    /\ UNCHANGED notRepoVars

NextRepo == CreateWork

SpecRepo == InitRepo /\ [][NextRepo]_vars

(***************************************************************************)
(* The fuzzy lookup as a state machine: the table holds some rows, a new   *)
(* work arrives, and find_existing_work looks for the row it duplicates.   *)
(***************************************************************************)
InitCache ==
    /\ IdleButCache
    /\ cache_rows \in WorkCacheTables
    /\ cache_work \in NewWorks
    /\ cache_found = None
    /\ cache_pc = "ready"

\* similar_work = await self.find_existing_work(work.title, work.author,
\*                                              work.publication_year)
FindExistingWork ==
    /\ cache_pc = "ready"
    /\ cache_found' = find_existing_work(cache_rows, Some(cache_work.title),
                                         cache_work.author, cache_work.publication_year)
    /\ cache_pc' = "done"
    /\ UNCHANGED <<cache_rows, cache_work>>
    /\ UNCHANGED notCacheVars

NextCache == FindExistingWork

SpecCache == InitCache /\ [][NextCache]_vars

(***************************************************************************)
(* The work_cache table as a state machine: it starts empty, and           *)
(* cache_work and create_work are called on one analysis after another.    *)
(* store_prev is the table before the last call; store_merged records,     *)
(* for each row, the source keys of the other sources merged into it.      *)
(***************************************************************************)
InitStore == IdleButStore /\ StoreIdle

\* The record of merged sources after a call that took `branch` with `work`
merged_after(merged, branch, key, alternate) ==
    IF branch.path = "insert" THEN Append(merged, {})
    ELSE IF alternate THEN [merged EXCEPT ![branch.id] = @ \cup {key}]
    ELSE merged

\* await cache_manager.cache_work(work, work.source_api, work.source_id)
CacheWork ==
    /\ store_n < MaxStoreOps
    /\ \E work \in StoreWorks :
       \E branch \in { cache_work_branch(store_rows, work, work.source_api,
                                         work.source_id) } :
          /\ store_rows' = CacheManager_cache_work(store_rows, work, work.source_api,
                                                   work.source_id)
          /\ store_last' = [op |-> "cache_work", path |-> branch.path,
                            id |-> branch.id, work |-> Some(work)]
          /\ store_merged' = merged_after(store_merged, branch, source_key_of(work),
                                          branch.path = "merge")
    /\ store_prev' = store_rows
    /\ store_n' = store_n + 1
    /\ UNCHANGED notStoreVars

\* await work_repo.create_work(work)
StoreCreateWork ==
    /\ store_n < MaxStoreOps
    /\ \E work \in StoreWorks :
       \E branch \in { create_work_branch(store_rows, work) } :
          /\ store_rows' = create_work(store_rows, work)
          /\ store_last' = [op |-> "create_work", path |-> branch.path,
                            id |-> branch.id, work |-> Some(work)]
          /\ store_merged' =
                merged_after(store_merged, branch, source_key_of(work),
                    /\ branch.path = "update"
                    /\ source_key_of(store_rows[branch.id]) # source_key_of(work))
    /\ store_prev' = store_rows
    /\ store_n' = store_n + 1
    /\ UNCHANGED notStoreVars

NextStore == CacheWork \/ StoreCreateWork

SpecStore == InitStore /\ [][NextStore]_vars

(***************************************************************************)
(* The rate limiters as a state machine: coroutines of one event loop call *)
(* search_books / search_works on the shared clients. A coroutine runs     *)
(* without interruption up to its await; the sleep ends at its wake time   *)
(* or later, and the clock may pass between any two steps.                 *)
(***************************************************************************)
InitLim == IdleButLim /\ LimIdle

\* Lines 37-40 up to the await: the call reads the clock and either goes
\* to sleep or, with the delay already over, stamps last_request_time and
\* issues its request.
RateLimitEnter(c, client) ==
    /\ lim_pc[c] = "ready"
    /\ lim_client' = [lim_client EXCEPT ![c] = client]
    /\ lim_called' = [lim_called EXCEPT ![c] = lim_now]
    /\ IF elapsed_since(lim_last[client], lim_now) < rate_limit_delay(client)
       THEN /\ lim_pc' = [lim_pc EXCEPT ![c] = "sleeping"]
            /\ lim_wake' = [lim_wake EXCEPT ![c] = wake_time(client, lim_last[client], lim_now)]
            /\ UNCHANGED <<lim_last, lim_start>>
       ELSE /\ lim_pc' = [lim_pc EXCEPT ![c] = "requested"]
            /\ lim_last' = [lim_last EXCEPT ![client] = lim_now]
            /\ lim_start' = [lim_start EXCEPT ![c] = lim_now]
            /\ UNCHANGED lim_wake
    /\ UNCHANGED lim_now
    /\ UNCHANGED notLimVars

\* Line 40 after the sleep: self.last_request_time = time.time(), and the
\* request goes out.
RateLimitResume(c) ==
    /\ lim_pc[c] = "sleeping"
    /\ lim_now >= lim_wake[c]
    /\ lim_pc' = [lim_pc EXCEPT ![c] = "requested"]
    /\ lim_last' = [lim_last EXCEPT ![lim_client[c]] = lim_now]
    /\ lim_start' = [lim_start EXCEPT ![c] = lim_now]
    /\ UNCHANGED <<lim_now, lim_client, lim_called, lim_wake>>
    /\ UNCHANGED notLimVars

\* A tenth of a second passes.
LimTick ==
    /\ lim_now < FirstCallTime + MaxTime
    /\ lim_now' = lim_now + 1
    /\ UNCHANGED <<lim_last, lim_pc, lim_client, lim_called, lim_wake, lim_start>>
    /\ UNCHANGED notLimVars

NextLim ==
    \/ \E c \in Callers, client \in SourceClients : RateLimitEnter(c, client)
    \/ \E c \in Callers : RateLimitResume(c)
    \/ LimTick

SpecLim == InitLim /\ [][NextLim]_vars

(***************************************************************************)
(* The shared session as a state machine: search requests are coroutines   *)
(* of one event loop; each runs without interruption between its awaits.   *)
(***************************************************************************)
InitSess == IdleButSess /\ SessIdle

\* How many sessions were made once start_session ran
made_after(session, closed, made) ==
    IF needs_session(session, closed) THEN made + 1 ELSE made

\* search.py line 127: `async with external_api_service:` calls __aenter__,
\* which starts the session.
EnterService(r) ==
    /\ sess_pc[r] = "idle"
    /\ needs_session(sess_session, sess_closed) => sess_made < MaxSessions
    /\ sess_session' = start_session(sess_session, sess_closed, sess_made + 1)
    /\ sess_made' = made_after(sess_session, sess_closed, sess_made)
    /\ sess_pc' = [sess_pc EXCEPT ![r] = "entered"]
    /\ sess_given' = [sess_given EXCEPT ![r] = None]
    /\ sess_http' = [sess_http EXCEPT ![r] = "none"]
    /\ sess_failed' = [sess_failed EXCEPT ![r] = FALSE]
    /\ UNCHANGED sess_closed
    /\ UNCHANGED notSessVars

\* search_all_sources up to the clients' first await (lines 70-88, 106-112):
\* the session is started again and the source searches are handed
\* self.session.
BeginSearch(r) ==
    /\ sess_pc[r] = "entered"
    /\ needs_session(sess_session, sess_closed) => sess_made < MaxSessions
    /\ sess_session' = start_session(sess_session, sess_closed, sess_made + 1)
    /\ sess_made' = made_after(sess_session, sess_closed, sess_made)
    /\ sess_given' = [sess_given EXCEPT ![r] = sess_session']
    /\ sess_pc' = [sess_pc EXCEPT ![r] = "searching"]
    /\ UNCHANGED <<sess_closed, sess_http, sess_failed>>
    /\ UNCHANGED notSessVars

\* After the rate limiter's await the client picks its session and sends
\* the request (library_of_congress.py lines 106-107).
SendRequest(r) ==
    /\ sess_pc[r] = "searching"
    /\ sess_http' = [sess_http EXCEPT ![r] = get_session(sess_given[r], sess_closed)]
    /\ sess_pc' = [sess_pc EXCEPT ![r] = "in_flight"]
    /\ UNCHANGED <<sess_session, sess_closed, sess_made, sess_given, sess_failed>>
    /\ UNCHANGED notSessVars

\* The response arrives, or the request fails because its session was
\* closed under it; gather returns and search_all_sources with it.
SearchReturns(r) ==
    /\ sess_pc[r] = "in_flight"
    /\ sess_failed' = [sess_failed EXCEPT ![r] =
                          sess_http[r] = "shared" /\ Val(sess_given[r]) \in sess_closed]
    /\ sess_pc' = [sess_pc EXCEPT ![r] = "returned"]
    /\ UNCHANGED <<sess_session, sess_closed, sess_made, sess_given, sess_http>>
    /\ UNCHANGED notSessVars

\* The request leaves its `async with` block: __aexit__ closes the session
\* the service holds.
LeaveService(r) ==
    /\ sess_pc[r] = "returned"
    /\ sess_closed' = close_session(sess_session, sess_closed)
    /\ sess_pc' = [sess_pc EXCEPT ![r] = "idle"]
    /\ UNCHANGED <<sess_session, sess_made, sess_given, sess_http, sess_failed>>
    /\ UNCHANGED notSessVars

NextSess ==
    \/ \E r \in Requests : EnterService(r)
    \/ \E r \in Requests : BeginSearch(r)
    \/ \E r \in Requests : SendRequest(r)
    \/ \E r \in Requests : SearchReturns(r)
    \/ \E r \in Requests : LeaveService(r)

SpecSess == InitSess /\ [][NextSess]_vars

(***************************************************************************)
(* Claims about the calculator (checked under SpecCalc)                    *)
(***************************************************************************)
StatusByYear(pd_year) ==
    IF current_year >= pd_year THEN "Public Domain" ELSE "Under Copyright"

Term95Applies ==
    /\ publication_year # None
    /\ \/ Val(publication_year) \in 1923..1977
       \/ /\ Val(publication_year) >= 1978
          /\ work_type \in {"work_for_hire", "anonymous", "pseudonymous"}

C2_Term95 ==
    (calc_pc = "done" /\ Term95Applies)
        => /\ verdict.pd_year = Some(Val(publication_year) + 95)
           /\ verdict.status = StatusByYear(Val(publication_year) + 95)

\* The term expires exactly in the year the calculator runs, after 1977.
C2_Witness ==
    /\ calc_pc = "done"
    /\ publication_year = Some(1978)
    /\ work_type = "anonymous"
    /\ current_year = 1978 + 95
    /\ verdict.status = "Public Domain"
    /\ verdict.pd_year = Some(1978 + 95)

C4_UnknownWithoutYear ==
    (calc_pc = "done" /\ publication_year = None)
        => (verdict.status = "Unknown" /\ verdict.pd_year = None)

C4_Witness ==
    /\ calc_pc = "done"
    /\ publication_year = None
    /\ author_death_year = Some(BaseYear - 70)
    /\ work_type = "work_for_hire"
    /\ country_arg = "FR"
    /\ verdict.status = "Unknown"

\* C5: a publication or death year outside [1400, current_year + 5], or a
\* death year earlier than publication_year - 100, is rejected with an error
\* and yields no verdict.
InvalidYears ==
    \/ /\ publication_year # None
       /\ (Val(publication_year) < 1400 \/ Val(publication_year) > current_year + 5)
    \/ /\ author_death_year # None
       /\ (Val(author_death_year) < 1400 \/ Val(author_death_year) > current_year + 5)
    \/ /\ publication_year # None /\ author_death_year # None
       /\ Val(author_death_year) < Val(publication_year) - 100

C5_InvalidYearsRejected ==
    (calc_pc = "done" /\ InvalidYears) => verdict.kind = "error"

(***************************************************************************)
(* Claims about the orchestrator (checked under SpecAnalyzer)              *)
(***************************************************************************)
InRegistry(code) == str_upper(code) \in DOMAIN COUNTRY_REGISTRY

IsAnalysisCall == an_call.op \in {"analyze_work", "analyze_batch"}

\* What C6 asks of a call whose country (constructor argument or override)
\* is the code `code`.
CountryHonoured(code) ==
    /\ (an_call.op = "init" /\ ~InRegistry(code))
          => an_result = Raised(UnsupportedCountry, None)
    /\ (an_call.op = "init" /\ InRegistry(code))
          => /\ an_result.kind = "returned"
             /\ an_self.country = str_upper(code)
             /\ an_self.country_analyzer = COUNTRY_REGISTRY[str_upper(code)]
    /\ (IsAnalysisCall /\ ~InRegistry(code))
          => an_result = Raised(UnsupportedCountry, None)
    /\ (IsAnalysisCall /\ InRegistry(code))
          => an_result.analyzer = Some(COUNTRY_REGISTRY[str_upper(code)])

BatchServed ==
    /\ an_call.op = "analyze_batch"
    /\ ~(TruthyStr(an_call.country) /\ ~InRegistry(Val(an_call.country)))

C7_BatchIsolated ==
    BatchServed =>
        /\ an_result.kind = "returned"
        /\ Len(an_result.value) = Len(an_call.works)
        /\ \A i \in 1..Len(an_call.works) :
              LET w == an_call.works[i]
                  r == USAnalyzer_analyze_work(w[1], w[2], "auto")
                  out == an_result.value[i]
              IN IF r.kind = "raised"
                 THEN /\ out.status = "Unknown"
                      /\ out.title = w[1]
                      /\ out.author_name = w[2]
                      /\ out.enters_public_domain = None
                 ELSE out = r.value

\* A batch of two different works whose analyses fail: both positions hold
\* the error record of their own item.
C7_Witness ==
    /\ BatchServed
    /\ Len(an_call.works) = 2
    /\ an_call.works[1] # an_call.works[2]
    /\ an_result.kind = "returned"
    /\ Len(an_result.value) = 2
    /\ an_result.value[1].title = an_call.works[1][1]
    /\ an_result.value[2].title = an_call.works[2][1]
    /\ an_result.value[2].status = "Unknown"


(***************************************************************************)
(* Claims about the relevance filter                                       *)
(***************************************************************************)
Ranked == rel_pc = "done" /\ rel_result.kind = "returned"

TargetTitle == str_strip(str_lower(rel_title))
TargetAuthor == str_strip(str_lower(rel_author))

TitleScore(i) == score_title_relevance(TargetTitle, match_title_of(rel_matches[i]))
AuthorScore(i) == score_author_relevance(TargetAuthor, match_authors_of(rel_matches[i]))

\* title sub-score + author sub-score + 5 when a publication year is present
Composite(i) ==
    FAdd(FAdd(TitleScore(i), AuthorScore(i)),
         IF rel_matches[i].publication_year # None THEN FInt(5) ELSE FInt(0))

\* The score the gate prescribes for candidate i when the target author
\* counts as specific or not.
GateScore(specific, i) ==
    LET rejected == IF specific
                    THEN FLt(TitleScore(i), FInt(20)) /\ FLt(AuthorScore(i), FInt(15))
                    ELSE FLt(TitleScore(i), FInt(20))
    IN IF rejected THEN FInt(0) ELSE Composite(i)

\* C8 as stated: with a supplied, non-generic target author a candidate
\* scores 0 unless its title sub-score is at least 20 or its author
\* sub-score at least 15, with no such author it scores 0 exactly when its
\* title sub-score is below 20, and every other score is the composite.
C8_Original ==
    Ranked =>
        \A i \in DOMAIN rel_matches :
            FEq(rel_scores[i],
                GateScore(TargetAuthor # <<>> /\ TargetAuthor \notin GenericAuthors, i))

\* C8, amended: the gate of C8 holds when "specific" means a target author
\* that is non-empty, not one of the generic placeholders and longer than
\* two characters; a shorter author is treated as if none were supplied.
C8_RelevanceGate ==
    Ranked =>
        \A i \in DOMAIN rel_matches :
            FEq(rel_scores[i],
                GateScore(/\ TargetAuthor # <<>>
                          /\ TargetAuthor \notin GenericAuthors
                          /\ Len(TargetAuthor) > 2, i))

\* A specific author was searched; one candidate was kept on its author
\* alone, one on its title alone, and one was rejected.
C8_Witness ==
    /\ Ranked
    /\ TargetAuthor # <<>> /\ TargetAuthor \notin GenericAuthors /\ Len(TargetAuthor) > 2
    /\ \E i, j, k \in DOMAIN rel_matches :
          /\ FLt(TitleScore(i), FInt(20)) /\ FGe(AuthorScore(i), FInt(15))
          /\ FLt(FInt(0), rel_scores[i])
          /\ FGe(TitleScore(j), FInt(20)) /\ FLt(AuthorScore(j), FInt(15))
          /\ FLt(FInt(0), rel_scores[j])
          /\ FLt(TitleScore(k), FInt(20)) /\ FLt(AuthorScore(k), FInt(15))
          /\ FEq(rel_scores[k], FInt(0))

\* C9: a candidate whose title is empty never appears in the ranked output
\* of the relevance filter, whatever the target, its authors and its year.
C9_EmptyTitleExcluded ==
    Ranked =>
        \A k \in DOMAIN rel_result.value : rel_result.value[k].title # Some(<<>>)

\* C10: the ranked output holds exactly the candidates with a positive
\* score, in non-increasing order of score, candidates of equal score in
\* their input order: some one-to-one assignment of output positions to the
\* positions of the surviving inputs respects both.
C10_RankedStable ==
    Ranked =>
        LET ranked == rel_result.value
            kept == { i \in DOMAIN rel_matches : FLt(FInt(0), rel_scores[i]) }
        IN /\ Len(ranked) = Cardinality(kept)
           /\ \E f \in [DOMAIN ranked -> kept] :
                 /\ \A k \in DOMAIN ranked : ranked[k] = rel_matches[f[k]]
                 /\ \A k, l \in DOMAIN ranked :
                       k < l =>
                           \/ FLt(rel_scores[f[l]], rel_scores[f[k]])
                           \/ /\ FEq(rel_scores[f[l]], rel_scores[f[k]])
                              /\ f[k] < f[l]

\* Two different candidates tied and a lower-scored candidate stood ahead
\* of a higher-scored one in the input.
C10_Witness ==
    /\ Ranked
    /\ \E k, l \in DOMAIN rel_result.value :
          /\ k < l
          /\ rel_result.value[k] # rel_result.value[l]
          /\ \E i, j \in DOMAIN rel_matches :
                /\ i < j
                /\ rel_matches[i] = rel_result.value[k]
                /\ rel_matches[j] = rel_result.value[l]
                /\ FEq(rel_scores[i], rel_scores[j])
    /\ \E i, j \in DOMAIN rel_matches :
          /\ i < j
          /\ FLt(FInt(0), rel_scores[i])
          /\ FLt(rel_scores[i], rel_scores[j])

\* C11: the author sub-score lies in [0, 100] for every target author and
\* candidate author list, and a candidate author equal to the target scores
\* exactly 100 whatever its position in the list.
C11_AuthorScoreRange ==
    Ranked =>
        \A i \in DOMAIN rel_matches :
            /\ FGe(AuthorScore(i), FInt(0))
            /\ FGe(FInt(100), AuthorScore(i))
            /\ (\E k \in DOMAIN rel_matches[i].authors :
                    match_authors_of(rel_matches[i])[k] = TargetAuthor)
               => FEq(AuthorScore(i), FInt(100))

\* The title sub-score as C12 words it, for a target t and a candidate
\* title m: 100 for equal normalized strings, 80 * min_len / max_len for
\* containment with a ratio above 0.3, else 60 * overlap ratio of the words
\* longer than 2 characters when that ratio is above 0.3, else 0.
ClaimedTitleScore(t, m) ==
    LET nt == str_strip(re_sub_punct(t))
        nm == str_strip(re_sub_punct(m))
        lo == Min(Len(nt), Len(nm))
        hi == Max(Len(nt), Len(nm))
        tw == { w \in Range(str_split(t)) : Len(w) > 2 }
        mw == { w \in Range(str_split(m)) : Len(w) > 2 }
        both == Cardinality(tw \cap mw)
        any == Cardinality(tw \cup mw)
    IN IF nt = nm THEN FInt(100)
       ELSE IF str_in(nt, nm) \/ str_in(nm, nt)
       THEN IF 10 * lo > 3 * hi THEN Frac(80 * lo, hi) ELSE FInt(0)
       ELSE IF any > 0 /\ 10 * both > 3 * any THEN Frac(60 * both, any) ELSE FInt(0)

\* Within [0, 100] and the same with target and candidate swapped.
TitleScoreBoundedSymmetric(i) ==
    /\ FGe(TitleScore(i), FInt(0))
    /\ FGe(FInt(100), TitleScore(i))
    /\ FEq(TitleScore(i),
           score_title_relevance(match_title_of(rel_matches[i]), TargetTitle))

\* C12 as stated: the title sub-score is 100 for an exact normalized match,
\* 80 * min_len / max_len for containment when the ratio exceeds 0.3 and 0
\* otherwise, else 60 * overlap ratio over words longer than 2 characters
\* when that ratio exceeds 0.3 and 0 otherwise; it lies in [0, 100] and is
\* symmetric in target and candidate.
C12_Original ==
    Ranked =>
        \A i \in DOMAIN rel_matches :
            /\ FEq(TitleScore(i),
                   ClaimedTitleScore(TargetTitle, match_title_of(rel_matches[i])))
            /\ TitleScoreBoundedSymmetric(i)

\* C12, amended: the title sub-score is 0 when the target or the candidate
\* title is empty, two empty titles included; otherwise it is as C12 states
\* it, the words being those of the strings before punctuation is removed.
C12_TitleScore ==
    Ranked =>
        \A i \in DOMAIN rel_matches :
            /\ FEq(TitleScore(i),
                   IF TargetTitle = <<>> \/ match_title_of(rel_matches[i]) = <<>>
                   THEN FInt(0)
                   ELSE ClaimedTitleScore(TargetTitle, match_title_of(rel_matches[i])))
            /\ TitleScoreBoundedSymmetric(i)

\* One search met an exact match, a containment scored above 0 and a word
\* overlap scored above 0.
C12_Witness ==
    /\ Ranked
    /\ \E i, j, k \in DOMAIN rel_matches :
          /\ FEq(TitleScore(i), FInt(100))
          /\ LET nt == str_strip(re_sub_punct(TargetTitle))
                 nj == str_strip(re_sub_punct(match_title_of(rel_matches[j])))
                 nk == str_strip(re_sub_punct(match_title_of(rel_matches[k])))
             IN /\ nt # nj /\ (str_in(nt, nj) \/ str_in(nj, nt))
                /\ FLt(FInt(0), TitleScore(j))
                /\ nt # nk /\ ~str_in(nt, nk) /\ ~str_in(nk, nt)
                /\ FLt(FInt(0), TitleScore(k))

(***************************************************************************)
(* Claims about the reconciler                                             *)
(***************************************************************************)
Merged == rec_in.kind = "query" /\ rec_pc = "merged"

\* What a source offers for a field: nothing, or a value with the
\* confidence of the response it came from.
Offer(response, value, present) ==
    IF usable_match(response) # None /\ present
    THEN Some([value |-> value, confidence |-> Val(response).confidence])
    ELSE None

\* The field-fill policy of C13 over the offers of the sources in priority
\* order: the first offer is written, a later one overwrites exactly when
\* its confidence is strictly greater than that of the value in place.
RECURSIVE FieldFill(_, _)
FieldFill(offers, n) ==
    IF n = 0 THEN None
    ELSE LET before == FieldFill(offers, n - 1) IN
         IF offers[n] = None THEN before
         ELSE IF before = None THEN offers[n]
         ELSE IF FLt(Val(before).confidence, Val(offers[n]).confidence)
         THEN offers[n] ELSE before

TitleOffers ==
    << IF usable_match(rec_in.loc) = None THEN None
       ELSE Offer(rec_in.loc, Val(usable_match(rec_in.loc)).title,
                  Val(usable_match(rec_in.loc)).title # <<>>),
       IF usable_match(rec_in.hathi) = None THEN None
       ELSE Offer(rec_in.hathi, Val(usable_match(rec_in.hathi)).title,
                  Val(usable_match(rec_in.hathi)).title # <<>>),
       IF usable_match(rec_in.musicbrainz) = None THEN None
       ELSE Offer(rec_in.musicbrainz, Val(usable_match(rec_in.musicbrainz)).title,
                  Val(usable_match(rec_in.musicbrainz)).title # <<>>) >>

YearOffers ==
    << IF usable_match(rec_in.loc) = None THEN None
       ELSE Offer(rec_in.loc, Val(usable_match(rec_in.loc)).publication_year,
                  Val(usable_match(rec_in.loc)).publication_year # None),
       IF usable_match(rec_in.hathi) = None THEN None
       ELSE Offer(rec_in.hathi,
                  extract_publication_year(Val(usable_match(rec_in.hathi)).publication_date),
                  extract_publication_year(Val(usable_match(rec_in.hathi)).publication_date)
                      # None) >>

AuthorOffers ==
    << IF usable_match(rec_in.loc) = None THEN None
       ELSE IF Val(usable_match(rec_in.loc)).authors = <<>> THEN None
       ELSE Offer(rec_in.loc,
                  normalize_author_name(select_author(Val(usable_match(rec_in.loc)).authors,
                                                      str_lower(rec_in.search_author))),
                  TRUE),
       IF usable_match(rec_in.musicbrainz) = None THEN None
       ELSE IF Val(usable_match(rec_in.musicbrainz)).composers = <<>> THEN None
       ELSE Offer(rec_in.musicbrainz,
                  normalize_author_name(Val(usable_match(rec_in.musicbrainz)).composers[1]),
                  TRUE) >>

\* The value the policy leaves in a field, in the field's own empty value
\* when no source offers one.
Filled(offers, empty) ==
    IF FieldFill(offers, Len(offers)) = None THEN empty
    ELSE Val(FieldFill(offers, Len(offers))).value

\* C13: each of title, author and publication year holds the value of the
\* earliest source in priority order that offers one, unless a later
\* source with strictly greater confidence offers one, which then
\* overwrites it; each field is decided on its own.
C13_FieldFillPerField ==
    Merged =>
        /\ rec_merged.title = Filled(TitleOffers, <<>>)
        /\ rec_merged.author_name = Filled(AuthorOffers, <<>>)
        /\ rec_merged.publication_year = Filled(YearOffers, None)

\* A record has just been created from rec_merged.
Created == rec_pc = "ready" /\ rec_records # <<>>

LastRecord == rec_records[Len(rec_records)]

\* The fixed weight of each source, 0.2 for one the weights do not list.
ClaimedWeight(s) ==
    IF s = "loc" THEN Frac(4, 10)
    ELSE IF s \in {"hathitrust", "musicbrainz"} THEN Frac(3, 10)
    ELSE Frac(2, 10)

SourceNames == <<"loc", "hathitrust", "musicbrainz", "openlibrary">>

\* Sum of w_s * c_s, and of w_s, over the first n source names that
\* contributed a confidence.
RECURSIVE WeightedSum(_, _)
WeightedSum(cs, n) ==
    IF n = 0 THEN FInt(0)
    ELSE IF SourceNames[n] \in DOMAIN cs
    THEN FAdd(WeightedSum(cs, n - 1), FMul(ClaimedWeight(SourceNames[n]), cs[SourceNames[n]]))
    ELSE WeightedSum(cs, n - 1)

RECURSIVE WeightSum(_, _)
WeightSum(cs, n) ==
    IF n = 0 THEN FInt(0)
    ELSE IF SourceNames[n] \in DOMAIN cs
    THEN FAdd(WeightSum(cs, n - 1), ClaimedWeight(SourceNames[n]))
    ELSE WeightSum(cs, n - 1)

C15_Idempotent ==
    (rec_in.kind = "query" /\ Len(rec_records) >= 2) =>
        \A i, j \in DOMAIN rec_records : rec_records[i] = rec_records[j]

\* No source yields a candidate.
AllSourcesUnusable ==
    /\ usable_match(rec_in.loc) = None
    /\ usable_match(rec_in.hathi) = None
    /\ usable_match(rec_in.musicbrainz) = None
    /\ usable_match(rec_in.artist) = None

\* C16: reconciliation fails, instead of returning a record, if and only
\* if every source is unusable; so a record is created from a query only
\* when some source yielded a candidate.
C16_FailsIffAllUnusable ==
    (rec_in.kind = "query" /\ Created) => ~AllSourcesUnusable

(***************************************************************************)
(* Claims about the search service (checked under SpecSvc)                 *)
(***************************************************************************)
\* What a source search contributes: its works, or nothing when it raised.
Contribution(result) == IF result.kind = "raised" THEN <<>> ELSE result.value

LocAsked == TruthyStr(svc_in.title) \/ TruthyStr(svc_in.author)

MusicBrainzAsked ==
    /\ LocAsked
    /\ svc_in.work_type \in {None, Some(<<>>), Some(s_musical)}

LocContribution ==
    IF LocAsked
    THEN Contribution(search_library_of_congress(svc_in.title, svc_in.author,
                                                 svc_in.limit, svc_in.loc_client))
    ELSE <<>>

MusicBrainzContribution ==
    IF MusicBrainzAsked
    THEN Contribution(search_musicbrainz(svc_in.title, svc_in.author, svc_in.limit,
                                         svc_in.mb_works, svc_in.mb_artists))
    ELSE <<>>

\* search_all_sources returns the works of the sources that did not fail,
\* Library of Congress first, whichever sources failed.
SearchAllSourcesDegrades ==
    (svc_pc = "done" /\ svc_result.op = "search_all_sources")
        => /\ svc_result.outcome.kind = "returned"
           /\ svc_result.outcome.value = LocContribution \o MusicBrainzContribution

\* analyze_work completes with a record, whichever sources failed.
AnalyzeWorkCompletes ==
    (svc_pc = "done" /\ svc_result.op = "analyze_work")
        => svc_result.outcome.kind = "returned"

\* C17: the failure or timeout of a source counts as zero candidates from
\* that source and never aborts the operation: search_all_sources and
\* analyze_work complete and return what the other sources contribute, in
\* source order.
C17_SourceFailureNonFatal == SearchAllSourcesDegrades /\ AnalyzeWorkCompletes

(***************************************************************************)
(* Claims about the work-type classifier (checked under SpecMods)          *)
(***************************************************************************)
Mods == Val(mods_in)

KnownResourceType(text) ==
    \/ any_term_in(MusicalResourceTerms, lower_strip(text))
    \/ any_term_in(LiteraryResourceTerms, lower_strip(text))

\* How many of the texts hold one of the terms.
Holding(texts, terms) ==
    Cardinality({ i \in DOMAIN texts : any_term_in(terms, lower_strip(texts[i])) })

\* The signals of the four rungs, read off the record.
TypeSignal == \E i \in DOMAIN Mods.types : KnownResourceType(Mods.types[i])

FirstTypeSignal == Mods.types # <<>> /\ KnownResourceType(Mods.types[1])

GenreMajority ==
    Holding(Mods.genres, MusicalGenreTerms) # Holding(Mods.genres, LiteraryGenreTerms)

SubjectMajority ==
    Holding(Mods.subjects, MusicalSubjectTerms) # Holding(Mods.subjects, LiterarySubjectTerms)

FormMatch ==
    \E i \in DOMAIN Mods.forms :
        any_term_in(MusicalFormTerms \cup LiteraryFormTerms, lower_strip(Mods.forms[i]))

Confidence == mods_result.confidence

\* The ladder, with type_signal as the signal of its first rung.
Ladder(type_signal) ==
    IF mods_in = None
    THEN FGe(Confidence, Frac(50, 100)) /\ FGe(Frac(70, 100), Confidence)
    ELSE IF type_signal THEN FEq(Confidence, Frac(95, 100))
    ELSE IF GenreMajority THEN FEq(Confidence, Frac(90, 100))
    ELSE IF SubjectMajority THEN FEq(Confidence, Frac(80, 100))
    ELSE IF FormMatch THEN FEq(Confidence, Frac(75, 100))
    ELSE /\ mods_result.work_type = "literary"
         /\ FGe(Confidence, Frac(50, 100)) /\ FGe(Frac(70, 100), Confidence)

\* The ladder holds when the first rung is read as the record's first
\* typeOfResource element.
LadderOnFirstType == mods_pc = "done" => Ladder(FirstTypeSignal)

\* C18: the first rung that gives a signal decides: a typeOfResource of the
\* controlled vocabulary gives 0.95, otherwise a genre majority 0.90,
\* otherwise a subject majority 0.80, otherwise a physical-form match 0.75,
\* otherwise literary at a confidence within [0.50, 0.70].
C18_CategoryLadder == mods_pc = "done" => Ladder(TypeSignal)

(***************************************************************************)
(* Claims about the work repository (checked under SpecRepo)               *)
(***************************************************************************)
\* A title without its letter case, punctuation and leading article.
CanonicalTitle(title) ==
    collapse_strip(re_sub_leading_article(
        collapse_strip(re_sub_non_alnum(str_strip(str_lower(title))))))

\* Two rows that differ at most in letter case, punctuation, a leading
\* article or the 'Last, First' order of the author.
SameWork(r1, r2) ==
    /\ CanonicalTitle(r1.title) = CanonicalTitle(r2.title)
    /\ normalize_author(r1.author) = normalize_author(r2.author)
    /\ r1.publication_year = r2.publication_year

\* The table holds at most one row per content hash.
OneRowPerHash ==
    \A i, j \in DOMAIN repo_rows :
        i # j => repo_rows[i].content_hash # repo_rows[j].content_hash

\* A create_work whose content hash is already stored inserts nothing.
MergesOnHit ==
    [][(repo_last'.made /\ repo_last'.found) => Len(repo_rows') = Len(repo_rows)]_vars

\* C19: after any sequence of create_work calls the table holds at most one
\* row per work, where works that differ only in letter case, punctuation, a
\* leading article or author name order are the same work: such a
\* create_work merges into the stored row instead of inserting.
C19_ExactKeyDedup ==
    \A i, j \in DOMAIN repo_rows : i # j => ~SameWork(repo_rows[i], repo_rows[j])

(***************************************************************************)
(* Claims about the fuzzy lookup (checked under SpecCache)                 *)
(***************************************************************************)
\* The similarity of the new work and a stored row.
Similarity(row) ==
    calculate_work_similarity(Some(cache_work.title), cache_work.author,
                              cache_work.publication_year,
                              Some(row.title), row.author, row.publication_year)

StoredRows == Range(cache_rows)

Candidates ==
    Range(similar_candidates(cache_rows, Some(cache_work.title), cache_work.author))

\* What the lookup does: it returns a row exactly when a row the query
\* returned scores above 0.7, and then one no such row outscores.
StrictAmongCandidates ==
    cache_pc = "done" =>
        /\ cache_found # None <=>
              \E row \in Candidates : DoubleGt(Similarity(row), SimilarityThreshold)
        /\ cache_found # None =>
              /\ Val(cache_found) \in Candidates
              /\ \A row \in Candidates :
                    ~DoubleGt(Similarity(row), Similarity(Val(cache_found)))

\* C20: the new work is the same work as a stored row exactly when their
\* similarity is >= 0.7, the value 0.7 included; when several rows qualify
\* the one with the highest score is the merge target.
C20_FuzzyThreshold ==
    cache_pc = "done" =>
        /\ cache_found # None <=>
              \E row \in StoredRows : DoubleGe(Similarity(row), SimilarityThreshold)
        /\ cache_found # None =>
              /\ Val(cache_found) \in StoredRows
              /\ \A row \in StoredRows :
                    ~DoubleGt(Similarity(row), Similarity(Val(cache_found)))

(***************************************************************************)
(* Claims about the merge policy of the store (checked under SpecStore)    *)
(***************************************************************************)
\* The last call merged a new analysis into a stored row: cache_work by
\* similarity (the fuzzy path) or create_work by content hash (the exact
\* path).
LastWasMerge == store_last.path \in {"merge", "update"}

RowBefore == store_prev[store_last.id]
RowAfter == store_rows[store_last.id]
NewWork == Val(store_last.work)

SourceLinks(w) == DictGet(w.processed_data, "source_links", EmptyDict)

\* What the code does with the links: on the fuzzy path the two
\* dictionaries are merged and the new url wins for a name both hold; on
\* the exact path the new dictionary replaces the stored one.
LinksAsMerged ==
    LastWasMerge =>
        SourceLinks(RowAfter) =
            IF store_last.path = "merge"
            THEN DictMerge(SourceLinks(RowBefore), SourceLinks(NewWork))
            ELSE IF "source_links" \in DOMAIN NewWork.processed_data
                 THEN SourceLinks(NewWork) ELSE SourceLinks(RowBefore)

\* C21: on every merge of a new analysis into a stored row the source links
\* are unioned and never overwritten: every link the row held before is
\* still there with the same url, and every link of the new record whose
\* source name the row did not hold is added.
C21_LinksUnioned ==
    LastWasMerge =>
        /\ \A name \in DOMAIN SourceLinks(RowBefore) :
              /\ name \in DOMAIN SourceLinks(RowAfter)
              /\ SourceLinks(RowAfter)[name] = SourceLinks(RowBefore)[name]
        /\ \A name \in DOMAIN SourceLinks(NewWork) \ DOMAIN SourceLinks(RowBefore) :
              /\ name \in DOMAIN SourceLinks(RowAfter)
              /\ SourceLinks(RowAfter)[name] = SourceLinks(NewWork)[name]

\* What the code does with the confidence: the exact path stores the
\* larger of the two, the fuzzy path leaves the stored one as it is; no
\* call lowers the confidence of a row.
ConfidenceAsMerged ==
    /\ store_last.path = "update" =>
          FEq(RowAfter.confidence_score,
              FMax(RowBefore.confidence_score, NewWork.confidence_score))
    /\ store_last.path = "merge" =>
          RowAfter.confidence_score = RowBefore.confidence_score
    /\ \A i \in DOMAIN store_prev :
          FGe(store_rows[i].confidence_score, store_prev[i].confidence_score)

\* C22: on every merge, by the exact path or the fuzzy path, the stored
\* confidence_score becomes max(old, new); hence the stored confidence of
\* a row never decreases.
C22_ConfidenceMax ==
    /\ LastWasMerge =>
          FEq(RowAfter.confidence_score,
              FMax(RowBefore.confidence_score, NewWork.confidence_score))
    /\ \A i \in DOMAIN store_prev :
          FGe(store_rows[i].confidence_score, store_prev[i].confidence_score)

\* What the code does with the three fields: the fuzzy path takes the new
\* work_type and copyright_status and leaves the public_domain_year column;
\* the exact path leaves work_type and takes the new status and year only
\* when they are truthy.
FieldsAsMerged ==
    /\ store_last.path = "merge" =>
          /\ RowAfter.work_type = NewWork.work_type
          /\ RowAfter.copyright_status = NewWork.copyright_status
          /\ RowAfter.public_domain_year = RowBefore.public_domain_year
    /\ store_last.path = "update" =>
          /\ RowAfter.work_type = RowBefore.work_type
          /\ RowAfter.copyright_status =
                status_or(NewWork.copyright_status, RowBefore.copyright_status)
          /\ RowAfter.public_domain_year =
                year_or(effective_public_domain_year(NewWork),
                        effective_public_domain_year(RowBefore))

\* C23: on every merge work_category, copyright_status and
\* public_domain_year are replaced by the values of the newer analysis, so
\* after the merge each of the three stored fields equals the new record's.
C23_MostRecentWins ==
    LastWasMerge =>
        /\ RowAfter.work_type = NewWork.work_type
        /\ RowAfter.copyright_status = NewWork.copyright_status
        /\ effective_public_domain_year(RowAfter) = effective_public_domain_year(NewWork)

\* The (source, source_id) pairs listed in a row's audit trail, under
\* either of the keys the two writers use.
trail_pairs(entries) ==
    { <<entries[k].source_api, entries[k].source_id>> : k \in DOMAIN entries }

AuditTrail(row) ==
    trail_pairs(DictGet(row.processed_data, "alternate_sources", <<>>))
        \cup trail_pairs(DictGet(row.processed_data, "additional_sources", <<>>))

\* What the code does with the trail: a merge lists the new source, and
\* every call but a refresh keeps what was listed.
TrailKeptUnlessRefreshed ==
    /\ LastWasMerge /\ source_key_of(RowBefore) # source_key_of(NewWork) =>
          source_key_of(NewWork) \in AuditTrail(RowAfter)
    /\ store_last.path # "refresh" =>
          \A i \in DOMAIN store_prev :
              AuditTrail(store_prev[i]) \subseteq AuditTrail(store_rows[i])

\* C24: the audit trail of a stored row is never discarded: after any
\* sequence of cache_work and create_work calls, every alternate (source,
\* source_id) pair that was ever merged into the row is still listed in
\* its audit trail.
C24_AuditTrailKept ==
    \A i \in DOMAIN store_rows : store_merged[i] \subseteq AuditTrail(store_rows[i])

(***************************************************************************)
(* Claims about the rate limiters (checked under SpecLim)                  *)
(***************************************************************************)
Requested(c) == lim_pc[c] = "requested"

Distance(a, b) == IF a < b THEN b - a ELSE a - b

\* What the code does: no request starts before the delay after the
\* last_request_time its call read, and a call never waits for another
\* client: it starts at once when its own client's delay is over, and
\* sleeps no longer than its own client's delay otherwise.
DelayAfterStampRead ==
    \A c \in Callers :
        /\ lim_pc[c] = "sleeping" =>
              /\ lim_wake[c] > lim_called[c]
              /\ lim_wake[c] - lim_called[c] <= rate_limit_delay(lim_client[c])
        /\ Requested(c) /\ lim_wake[c] = 0 => lim_start[c] = lim_called[c]
        /\ Requested(c) /\ lim_wake[c] # 0 => lim_start[c] >= lim_wake[c]

\* C25: per-source rate limiting holds under every interleaving of
\* concurrent callers: the start times of any two requests issued through
\* one client are at least rate_limit_delay apart, and waiting for one
\* source's delay never delays a call to a different source.
C25_MinimumSpacing ==
    /\ \A c1, c2 \in Callers :
          c1 # c2 /\ Requested(c1) /\ Requested(c2) /\ lim_client[c1] = lim_client[c2]
              => Distance(lim_start[c1], lim_start[c2]) >= rate_limit_delay(lim_client[c1])
    /\ \A c \in Callers :
          lim_pc[c] = "sleeping" =>
              lim_wake[c] - lim_called[c] <= rate_limit_delay(lim_client[c])

(***************************************************************************)
(* Further claims about the calculator (checked under SpecCalc)            *)
(***************************************************************************)
ConservativeNote ==
    "Published {publication_year} by individual author. Death year unknown; estimated PD {estimated_pd} (conservative)."

\* C26: for every publication_year >= 1978 with category individual and no
\* known author death year the verdict is Under Copyright with
\* public_domain_year = publication_year + 95 and an explanation that marks
\* the year as a conservative estimate.
C26_ConservativeEstimate ==
    (calc_pc = "done" /\ publication_year # None /\ Val(publication_year) >= 1978
        /\ work_type = "individual" /\ author_death_year = None)
        => /\ verdict.status = "Under Copyright"
           /\ verdict.pd_year = Some(Val(publication_year) + 95)
           /\ verdict.explanation = ConservativeNote

\* The estimated year has come and the verdict is Under Copyright still.
C26_Witness ==
    /\ calc_pc = "done"
    /\ publication_year = Some(1978)
    /\ work_type = "individual"
    /\ author_death_year = None
    /\ current_year = 1978 + 95
    /\ verdict.status = "Under Copyright"
    /\ verdict.pd_year = Some(1978 + 95)

\* The verdict is still Public Domain when the calculator is constructed
\* in any later year.
StaysPublicDomain ==
    verdict.status = "Public Domain" =>
        \A later \in CurrentYears :
            later >= current_year =>
                calculate_copyright_status(later, publication_year, author_death_year,
                                           work_type, country_arg).status = "Public Domain"

\* C27 (as stated): status and public_domain_year agree for every input and
\* current_year: Public Domain iff a public_domain_year is returned and is
\* <= current_year, Under Copyright iff one is returned and is >
\* current_year, Unknown iff none is returned; a Public Domain verdict
\* stays Public Domain at every later current_year.
C27_Original ==
    calc_pc = "done" =>
        /\ verdict.status = "Public Domain" <=>
              (verdict.pd_year # None /\ Val(verdict.pd_year) <= current_year)
        /\ verdict.status = "Under Copyright" <=>
              (verdict.pd_year # None /\ Val(verdict.pd_year) > current_year)
        /\ verdict.status = "Unknown" <=> verdict.pd_year = None
        /\ StaysPublicDomain

\* The inputs of the conservative estimate: an individual work from 1978
\* on with no death year, or the death year 0, which counts as none.
DeathYearUnknownCase ==
    /\ Truthy(publication_year) /\ Val(publication_year) >= 1978
    /\ work_type = "individual"
    /\ ~Truthy(author_death_year)

\* C27 (amended): the same, except that the conservative estimate for an
\* individual work from 1978 on with an unknown death year is Under
\* Copyright with public_domain_year = publication_year + 95 even when that
\* year is <= current_year.
C27_StatusAgrees ==
    calc_pc = "done" =>
        /\ verdict.status = "Unknown" <=> verdict.pd_year = None
        /\ ~DeathYearUnknownCase =>
              /\ verdict.status = "Public Domain" <=>
                    (verdict.pd_year # None /\ Val(verdict.pd_year) <= current_year)
              /\ verdict.status = "Under Copyright" <=>
                    (verdict.pd_year # None /\ Val(verdict.pd_year) > current_year)
        /\ DeathYearUnknownCase =>
              /\ verdict.status = "Under Copyright"
              /\ verdict.pd_year = Some(Val(publication_year) + 95)
        /\ StaysPublicDomain

\* A term that expires exactly in the year the calculator runs.
C27_Witness ==
    /\ calc_pc = "done"
    /\ publication_year = Some(BaseYear - 95)
    /\ current_year = BaseYear
    /\ verdict.status = "Public Domain"
    /\ verdict.pd_year = Some(current_year)

(***************************************************************************)
(* Claims about steps 4 to 6 of analyze_work (checked under SpecRec)       *)
(***************************************************************************)
\* A record was built from the merged metadata that is still at hand.
RecordBuilt == rec_pc = "ready" /\ rec_records # <<>>

\* The calculator's verdict for the category stored on the merged record.
VerdictForStoredCategory ==
    calculate_copyright_status(current_year, rec_merged.publication_year,
                               rec_merged.author_death_year,
                               Val(rec_merged.work_type), rec_merged.country)

\* What the code does: the verdict attached is always the one for the
\* category individual, and the record's country is the merged one.
VerdictForIndividual ==
    RecordBuilt =>
        LET v == calculate_copyright_status(current_year, rec_merged.publication_year,
                                            rec_merged.author_death_year, "individual",
                                            rec_merged.country)
        IN /\ LastRecord.status = v.status
           /\ LastRecord.enters_public_domain = v.pd_year
           /\ LastRecord.notes = v.explanation
           /\ LastRecord.country = rec_merged.country

SearchInProgress(r) == sess_pc[r] \in {"searching", "in_flight"}

\* What the code does: a request sent on the shared session may be in
\* flight on a session that was closed; one that found the session closed
\* before sending is sent on the client's own session instead.
SentOnOpenSession ==
    \A r \in Requests :
        /\ sess_http[r] = "own" => Val(sess_given[r]) \in sess_closed
        /\ sess_failed[r] => sess_http[r] = "shared" /\ Val(sess_given[r]) \in sess_closed

\* C30: under concurrent search requests that share the global service,
\* the session used by a search_all_sources call that is still in progress
\* is never closed by another request leaving its `async with` block: the
\* shared session is closed only while no search_all_sources call is
\* using it.
C30_SessionOpenWhileUsed ==
    \A r \in Requests :
        SearchInProgress(r) => Val(sess_given[r]) \notin sess_closed

====
